---- MODULE Spec2Model ----
(***************************************************************************)
(* A model of the GTS identifier grammar (gts.py), the entity store and    *)
(* its query language (store.py) and the instance cast engine              *)
(* (schema_cast.py).                                                       *)
(*                                                                         *)
(* Strings are sequences of one-character strings, so that strip, split,   *)
(* startswith and the version-number parsing are computed character by     *)
(* character as the Python code computes them.                             *)
(***************************************************************************)
EXTENDS Integers, Sequences, FiniteSets, TLC

VARIABLES by_id, reader, call, ret

vars == <<by_id, reader, call, ret>>

-----------------------------------------------------------------------------
(* Bounds of the model.                                                    *)

\* the longest chain of segments in a generated identifier
MaxSegs == 2

\* the most entities a registry holds
MaxEntities == 3

\* the largest limit of a query
MaxLimit == 3

\* the most filters of a query
MaxFilters == 2

\* the most properties of a target schema
MaxProps == 2

-----------------------------------------------------------------------------
(* Python str primitives over character sequences.                         *)

IsSpace(c) == c \in {" "}

RECURSIVE LStrip(_)
LStrip(s) == IF s # <<>> /\ IsSpace(Head(s)) THEN LStrip(Tail(s)) ELSE s

RECURSIVE RStrip(_)
RStrip(s) ==
    IF s # <<>> /\ IsSpace(s[Len(s)]) THEN RStrip(SubSeq(s, 1, Len(s) - 1)) ELSE s

Strip(s) == RStrip(LStrip(s))

StartsWith(s, p) == Len(s) >= Len(p) /\ SubSeq(s, 1, Len(p)) = p

EndsWith(s, p) == Len(s) >= Len(p) /\ SubSeq(s, Len(s) - Len(p) + 1, Len(s)) = p

Count(s, c) == Cardinality({i \in DOMAIN s : s[i] = c})

Contains(s, c) == \E i \in DOMAIN s : s[i] = c

RECURSIVE FindFrom(_, _, _)
FindFrom(s, c, i) ==
    IF i > Len(s) THEN 0 ELSE IF s[i] = c THEN i ELSE FindFrom(s, c, i + 1)

\* index of the first c in s, 0 when there is none
Find(s, c) == FindFrom(s, c, 1)

RECURSIVE RFindFrom(_, _, _)
RFindFrom(s, c, i) ==
    IF i < 1 THEN 0 ELSE IF s[i] = c THEN i ELSE RFindFrom(s, c, i - 1)

\* index of the last c in s, 0 when there is none
RFind(s, c) == RFindFrom(s, c, Len(s))

\* str.split(c): the pieces between the separators, empty pieces kept
RECURSIVE Split(_, _)
Split(s, c) ==
    LET i == Find(s, c)
    IN  IF i = 0 THEN <<s>>
        ELSE <<SubSeq(s, 1, i - 1)>> \o Split(SubSeq(s, i + 1, Len(s)), c)

UpperChars == {"A", "B", "V"}

LowerChar(c) == CASE c = "A" -> "a" [] c = "B" -> "b" [] c = "V" -> "v" [] OTHER -> c

Lower(s) == [i \in DOMAIN s |-> LowerChar(s[i])]

Digits == {"0", "1", "2", "3", "4", "5", "6", "7", "8", "9"}

DigitVal(c) == CASE c = "0" -> 0 [] c = "1" -> 1 [] c = "2" -> 2 [] c = "3" -> 3
                 [] c = "4" -> 4 [] c = "5" -> 5 [] c = "6" -> 6 [] c = "7" -> 7
                 [] c = "8" -> 8 [] c = "9" -> 9

LowerLetters == {"a", "b", "c", "d", "e", "f", "g", "h", "i", "j", "k", "l", "m",
                 "n", "o", "p", "q", "r", "s", "t", "u", "v", "w", "x", "y", "z"}

RECURSIVE Concat(_)
Concat(ss) == IF ss = <<>> THEN <<>> ELSE Head(ss) \o Concat(Tail(ss))

RECURSIVE Join(_, _)
Join(ss, sep) == IF ss = <<>> THEN <<>>
                 ELSE IF Len(ss) = 1 THEN Head(ss)
                 ELSE Head(ss) \o sep \o Join(Tail(ss), sep)

-----------------------------------------------------------------------------
(* gts.py: constants                                                       *)

GTS_PREFIX == <<"g", "t", "s", ".">>

GTS_URI_PREFIX == <<"g", "t", "s", ":", "/", "/">>

MaxIdLen == 1024

\* GTS_SEGMENT_TOKEN_REGEX = ^[a-z_][a-z0-9_]*$
GTS_SEGMENT_TOKEN_REGEX(t) ==
    /\ t # <<>>
    /\ t[1] \in LowerLetters \cup {"_"}
    /\ \A i \in 2..Len(t) : t[i] \in LowerLetters \cup Digits \cup {"_"}

\* ver_minor: Optional[int] = None
NoMinor == -1

-----------------------------------------------------------------------------
(* int(): the text of a version number.  ok is false where int() raises     *)
(* ValueError; canon is str(int(t)) = t.                                    *)

RECURSIVE DigitsVal(_)
DigitsVal(t) == IF t = <<>> THEN 0
                ELSE 10 * DigitsVal(SubSeq(t, 1, Len(t) - 1)) + DigitVal(t[Len(t)])

\* t is the text, u the stripped text, d its digits after an optional sign
ParseIntDigits(t, u, d) ==
    IF d # <<>> /\ \A i \in DOMAIN d : d[i] \in Digits
    THEN [ok |-> TRUE,
          val |-> IF u[1] = "-" THEN 0 - DigitsVal(d) ELSE DigitsVal(d),
          canon |-> u = d /\ t = u /\ (Len(d) = 1 \/ d[1] # "0")]
    ELSE [ok |-> FALSE, val |-> 0, canon |-> FALSE]

ParseIntStripped(t, u) ==
    ParseIntDigits(t, u, IF u # <<>> /\ u[1] \in {"-", "+"} THEN Tail(u) ELSE u)

ParseInt(t) == ParseIntStripped(t, Strip(t))

-----------------------------------------------------------------------------
(* gts.py: GtsIdSegment                                                    *)

SegFail(cause) ==
    [ok |-> FALSE, cause |-> cause, segment |-> <<>>,
     vendor |-> <<>>, package |-> <<>>, namespace |-> <<>>, type |-> <<>>,
     ver_major |-> 0, ver_minor |-> NoMinor, is_type |-> FALSE, is_wildcard |-> FALSE]

\* the fields of a segment whose first n name tokens were assigned
SegFields(segment, tokens, n, major, minor, is_type, is_wildcard) ==
    [ok |-> TRUE, cause |-> "", segment |-> Strip(segment),
     vendor |-> IF n >= 1 THEN tokens[1] ELSE <<>>,
     package |-> IF n >= 2 THEN tokens[2] ELSE <<>>,
     namespace |-> IF n >= 3 THEN tokens[3] ELSE <<>>,
     type |-> IF n >= 4 THEN tokens[4] ELSE <<>>,
     ver_major |-> major, ver_minor |-> minor,
     is_type |-> is_type, is_wildcard |-> is_wildcard]

Min(a, b) == IF a <= b THEN a ELSE b

\* the first of the four name tokens that is "*", 0 when none is
FirstNameStar(tokens) ==
    IF \E i \in 1..Min(Len(tokens), 4) : tokens[i] = <<"*">>
    THEN CHOOSE i \in 1..Min(Len(tokens), 4) :
             tokens[i] = <<"*">> /\ \A j \in 1..(i - 1) : tokens[j] # <<"*">>
    ELSE 0

\* tokens[5], the minor version: minor is int(tokens[5])
SegmentMinor(segment, is_type, tokens, major, minor) ==
    IF ~minor.ok THEN SegFail("Minor version must be an integer")
    ELSE IF minor.val < 0 THEN SegFail("Minor version must be >= 0")
    ELSE IF ~minor.canon THEN SegFail("Minor version must be an integer")
    ELSE SegFields(segment, tokens, 4, major, minor.val, is_type, FALSE)

\* tokens[4] = 'v' + major version: major is int(tokens[4][1:])
SegmentMajor(segment, is_type, tokens, major) ==
    IF ~major.ok THEN SegFail("Major version must be an integer")
    ELSE IF major.val < 0 THEN SegFail("Major version must be >= 0")
    ELSE IF ~major.canon THEN SegFail("Major version must be an integer")
    ELSE IF Len(tokens) <= 5
         THEN SegFields(segment, tokens, 4, major.val, NoMinor, is_type, FALSE)
    ELSE IF tokens[6] = <<"*">>
         THEN SegFields(segment, tokens, 4, major.val, NoMinor, is_type, TRUE)
    ELSE SegmentMinor(segment, is_type, tokens, major.val, ParseInt(tokens[6]))

\* the tokens of the segment text without its '~'; star: that text ends with '*'
SegmentTokens(segment, is_type, star, tokens) ==
    IF Len(tokens) > 6 THEN SegFail("Too many tokens")
    ELSE IF ~star /\ Len(tokens) < 5 THEN SegFail("Too few tokens")
    ELSE IF ~star /\ \E t \in 1..4 : ~GTS_SEGMENT_TOKEN_REGEX(tokens[t])
         THEN SegFail("Invalid segment token")
    ELSE IF FirstNameStar(tokens) # 0
         THEN SegFields(segment, tokens, FirstNameStar(tokens) - 1, 0, NoMinor, is_type, TRUE)
    ELSE IF Len(tokens) <= 4
         THEN SegFields(segment, tokens, Len(tokens), 0, NoMinor, is_type, FALSE)
    ELSE IF tokens[5] = <<"*">>
         THEN SegFields(segment, tokens, 4, 0, NoMinor, is_type, TRUE)
    ELSE IF ~StartsWith(tokens[5], <<"v">>)
         THEN SegFail("Major version must start with 'v'")
    ELSE SegmentMajor(segment, is_type, tokens, ParseInt(Tail(tokens[5])))

SegmentBody(segment, is_type, body) ==
    SegmentTokens(segment, is_type, EndsWith(body, <<"*">>), Split(body, "."))

GtsIdSegment(num, offset, segment) ==
    IF Count(segment, "~") > 1 THEN SegFail("Too many '~' characters")
    ELSE IF Count(segment, "~") = 1 /\ ~EndsWith(segment, <<"~">>)
         THEN SegFail(" '~' must be at the end")
    ELSE IF Count(segment, "~") = 1
         THEN SegmentBody(segment, TRUE, SubSeq(segment, 1, Len(segment) - 1))
    ELSE SegmentBody(segment, FALSE, segment)

-----------------------------------------------------------------------------
(* gts.py: GtsID.__init__                                                  *)

IdFail(err, cause) == [ok |-> FALSE, err |-> err, cause |-> cause, id |-> <<>>, segs |-> <<>>]

\* ps is the identifier body split at '~': every piece before a '~' keeps its
\* '~', and an empty piece after the last '~' is dropped
PartsOf(ps) ==
    [i \in 1..(IF Len(ps) >= 2 /\ ps[Len(ps)] = <<>> THEN Len(ps) - 1 ELSE Len(ps)) |->
        IF i < Len(ps) THEN ps[i] \o <<"~">> ELSE ps[i]]

IdParts(body) == PartsOf(Split(body, "~"))

\* offset of part i: len(GTS_PREFIX) plus the lengths of the parts before it
RECURSIVE PartOffset(_, _)
PartOffset(parts, i) ==
    IF i = 1 THEN Len(GTS_PREFIX) ELSE PartOffset(parts, i - 1) + Len(parts[i - 1])

\* mutant of StoredId: the text after the gts. prefix is kept
StoredId_Body(raw) == SubSeq(raw, Len(GTS_PREFIX) + 1, Len(raw))

\* the identifier kept in self.id
StoredId(raw) == raw

\* mutant of SingleSegmentInstance: the check of issue #37 is missing
SingleSegmentInstance_Unchecked(id, segs) == FALSE

\* Issue #37: an instance identifier of a single non-wildcard segment
SingleSegmentInstance(id, segs) ==
    /\ ~EndsWith(id, <<"~">>)
    /\ Len(segs) = 1
    /\ ~\E i \in DOMAIN segs : segs[i].is_wildcard

\* the first part that is empty or fails to parse, 0 when none does
FirstBadPart(parts, segs) ==
    IF \E i \in DOMAIN parts : parts[i] = <<>> \/ ~segs[i].ok
    THEN CHOOSE i \in DOMAIN parts :
             /\ parts[i] = <<>> \/ ~segs[i].ok
             /\ \A j \in 1..(i - 1) : parts[j] # <<>> /\ segs[j].ok
    ELSE 0

\* the loop over the parts stopped at part bad, or ran to its end (bad = 0)
IdOfSegments(id, parts, segs, bad) ==
    IF bad # 0 /\ parts[bad] = <<>> THEN IdFail("GtsInvalidId", "GTS segment is empty")
    ELSE IF bad # 0 THEN IdFail("GtsInvalidSegment", segs[bad].cause)
    ELSE IF SingleSegmentInstance(id, segs)
         THEN IdFail("GtsInvalidId", "Single-segment instance IDs are not allowed")
    ELSE [ok |-> TRUE, err |-> "", cause |-> "", id |-> id, segs |-> segs]

IdOfParts(id, parts, segs) == IdOfSegments(id, parts, segs, FirstBadPart(parts, segs))

IdOfRaw(raw, parts) ==
    IdOfParts(StoredId(raw), parts,
              [i \in DOMAIN parts |-> GtsIdSegment(i, PartOffset(parts, i), parts[i])])

\* raw: the identifier stripped of blanks and of the gts:// prefix
IdChecks(raw) ==
    IF raw # Lower(raw) THEN IdFail("GtsInvalidId", "Must be lower case")
    ELSE IF Contains(raw, "-") THEN IdFail("GtsInvalidId", "Must not contain '-'")
    ELSE IF ~StartsWith(raw, GTS_PREFIX)
         THEN IdFail("GtsInvalidId", "Does not start with 'gts.'")
    ELSE IF Len(raw) > MaxIdLen THEN IdFail("GtsInvalidId", "Too long")
    ELSE IdOfRaw(raw, IdParts(SubSeq(raw, Len(GTS_PREFIX) + 1, Len(raw))))

StripUriPrefix(s) ==
    IF StartsWith(s, GTS_URI_PREFIX) THEN SubSeq(s, Len(GTS_URI_PREFIX) + 1, Len(s)) ELSE s

GtsID(id) == IdChecks(StripUriPrefix(Strip(id)))

-----------------------------------------------------------------------------
(* gts.py: GtsWildcard.__init__ and GtsID.wildcard_match                   *)

\* g is GtsID(p): a GtsInvalidId is raised again as GtsInvalidWildcard
WildcardOfId(g) ==
    IF ~g.ok /\ g.err = "GtsInvalidId" THEN IdFail("GtsInvalidWildcard", g.cause) ELSE g

WildcardChecks(p) ==
    IF ~StartsWith(p, GTS_PREFIX)
    THEN IdFail("GtsInvalidWildcard", "Does not start with 'gts.'")
    ELSE IF Count(p, "*") > 1
         THEN IdFail("GtsInvalidWildcard", "The wildcard '*' token is allowed only once")
    ELSE IF Contains(p, "*") /\ ~EndsWith(p, <<".", "*">>) /\ ~EndsWith(p, <<"~", "*">>)
         THEN IdFail("GtsInvalidWildcard",
                     "The wildcard '*' token is allowed only at the end of the pattern")
    ELSE WildcardOfId(GtsID(p))

GtsWildcard(pattern) == WildcardChecks(Strip(pattern))

\* mutant of WildcardSegmentMatch: the vendor before the '*' is not compared
WildcardSegmentMatch_AnyVendor(p_seg, c_seg) ==
    IF p_seg.package # <<>> /\ p_seg.package # c_seg.package THEN FALSE
    ELSE IF p_seg.namespace # <<>> /\ p_seg.namespace # c_seg.namespace THEN FALSE
    ELSE IF p_seg.type # <<>> /\ p_seg.type # c_seg.type THEN FALSE
    ELSE IF p_seg.ver_major # 0 /\ p_seg.ver_major # c_seg.ver_major THEN FALSE
    ELSE IF p_seg.ver_minor # NoMinor /\ p_seg.ver_minor # c_seg.ver_minor THEN FALSE
    ELSE IF p_seg.is_type /\ p_seg.is_type # c_seg.is_type THEN FALSE
    ELSE TRUE

\* a wildcard pattern segment: only the fields set before the '*' are compared
WildcardSegmentMatch(p_seg, c_seg) ==
    IF p_seg.vendor # <<>> /\ p_seg.vendor # c_seg.vendor THEN FALSE
    ELSE IF p_seg.package # <<>> /\ p_seg.package # c_seg.package THEN FALSE
    ELSE IF p_seg.namespace # <<>> /\ p_seg.namespace # c_seg.namespace THEN FALSE
    ELSE IF p_seg.type # <<>> /\ p_seg.type # c_seg.type THEN FALSE
    ELSE IF p_seg.ver_major # 0 /\ p_seg.ver_major # c_seg.ver_major THEN FALSE
    ELSE IF p_seg.ver_minor # NoMinor /\ p_seg.ver_minor # c_seg.ver_minor THEN FALSE
    ELSE IF p_seg.is_type /\ p_seg.is_type # c_seg.is_type THEN FALSE
    ELSE TRUE

\* mutant of ExactSegmentMatch: the major version is not compared
ExactSegmentMatch_NoMajor(p_seg, c_seg) ==
    IF p_seg.vendor # c_seg.vendor THEN FALSE
    ELSE IF p_seg.package # c_seg.package THEN FALSE
    ELSE IF p_seg.namespace # c_seg.namespace THEN FALSE
    ELSE IF p_seg.type # c_seg.type THEN FALSE
    ELSE IF p_seg.ver_minor # NoMinor /\ p_seg.ver_minor # c_seg.ver_minor THEN FALSE
    ELSE IF p_seg.is_type # c_seg.is_type THEN FALSE
    ELSE TRUE

\* a pattern segment without '*': FALSE where the loop returns False
ExactSegmentMatch(p_seg, c_seg) ==
    IF p_seg.vendor # c_seg.vendor THEN FALSE
    ELSE IF p_seg.package # c_seg.package THEN FALSE
    ELSE IF p_seg.namespace # c_seg.namespace THEN FALSE
    ELSE IF p_seg.type # c_seg.type THEN FALSE
    ELSE IF p_seg.ver_major # c_seg.ver_major THEN FALSE
    ELSE IF p_seg.ver_minor # NoMinor /\ p_seg.ver_minor # c_seg.ver_minor THEN FALSE
    ELSE IF p_seg.is_type # c_seg.is_type THEN FALSE
    ELSE TRUE

\* the loop of match_segments from pattern segment i on
RECURSIVE MatchFrom(_, _, _)
MatchFrom(pattern_segs, candidate_segs, i) ==
    IF i > Len(pattern_segs) THEN TRUE
    ELSE IF pattern_segs[i].is_wildcard
         THEN WildcardSegmentMatch(pattern_segs[i], candidate_segs[i])
    ELSE IF ~ExactSegmentMatch(pattern_segs[i], candidate_segs[i]) THEN FALSE
    ELSE MatchFrom(pattern_segs, candidate_segs, i + 1)

match_segments(pattern_segs, candidate_segs) ==
    IF Len(pattern_segs) > Len(candidate_segs) THEN FALSE
    ELSE MatchFrom(pattern_segs, candidate_segs, 1)

\* candidate and pattern are parsed identifiers (GtsID and GtsWildcard objects)
wildcard_match(candidate, pattern) ==
    IF ~Contains(pattern.id, "*") THEN match_segments(pattern.segs, candidate.segs)
    ELSE IF Count(pattern.id, "*") > 1 \/ ~EndsWith(pattern.id, <<"*">>) THEN FALSE
    ELSE match_segments(pattern.segs, candidate.segs)

-----------------------------------------------------------------------------
(* Identifier texts the parser is run on: a chain of segment texts joined   *)
(* by '~', with or without a final '~', bare or wrapped in blanks and a     *)
(* gts:// prefix.                                                           *)

Tok(c) == <<c>>

Dotted(tokens) == Join(tokens, <<".">>)

NameAPNT == <<Tok("a"), Tok("p"), Tok("n"), Tok("t")>>

\* well-formed segments without a wildcard
GoodSegs ==
    { Dotted(NameAPNT \o <<<<"v", "0">>>>),
      Dotted(NameAPNT \o <<<<"v", "1">>>>),
      Dotted(NameAPNT \o <<<<"v", "1">>, Tok("2")>>),
      Dotted(<<Tok("b"), Tok("p"), Tok("n"), Tok("t"), <<"v", "1", "0">>>>) }

\* segments cut short by a '*'
WildSegs ==
    { Tok("*"),
      Dotted(<<Tok("a"), Tok("*")>>),
      Dotted(NameAPNT \o <<<<"v", "1">>, Tok("*")>>) }

\* texts that are no segment, or a segment only by accident
BadSegs ==
    { <<>>,
      Dotted(NameAPNT),
      Dotted(NameAPNT \o <<<<"v", "0", "1">>>>),
      Dotted(NameAPNT \o <<<<"v", "1">>, Tok("0"), Tok("0")>>),
      Dotted(<<Tok("A"), Tok("p"), Tok("n"), Tok("t"), <<"v", "1">>>>),
      Dotted(<<<<"a", "-", "b">>, Tok("p"), Tok("n"), Tok("t"), <<"v", "1">>>>),
      Dotted(<<Tok("a"), <<"b", "*">>>>) }

SegTexts == GoodSegs \cup WildSegs \cup BadSegs

\* all chains of 1..MaxSegs segment texts
Chains == UNION {[1..k -> SegTexts] : k \in 1..MaxSegs}

\* gts. + the chain joined by '~' + an optional final '~'
CoreOf(texts, tilde) ==
    GTS_PREFIX \o Join(texts, <<"~">>) \o (IF tilde THEN <<"~">> ELSE <<>>)

Decorated(core, pad, uri) ==
    (IF pad THEN <<" ">> ELSE <<>>) \o (IF uri THEN GTS_URI_PREFIX ELSE <<>>)
        \o core \o (IF pad THEN <<" ", " ">> ELSE <<>>)

-----------------------------------------------------------------------------
(* The parser as a state machine: an identifier is parsed, and the id of an *)
(* accepted identifier is parsed again.                                     *)

NoCall == [op |-> "none"]

NoRet == [ok |-> FALSE]

InitId == by_id = <<>> /\ reader = <<>> /\ call = NoCall /\ ret = NoRet

ParseId(texts, tilde, pad, uri) ==
    /\ call' = [op |-> "GtsID", id |-> Decorated(CoreOf(texts, tilde), pad, uri),
                core |-> CoreOf(texts, tilde), texts |-> texts, tilde |-> tilde]
    /\ ret' = GtsID(Decorated(CoreOf(texts, tilde), pad, uri))
    /\ UNCHANGED <<by_id, reader>>

Reparse ==
    /\ call.op = "GtsID"
    /\ ret.ok
    /\ call' = [op |-> "reparse", id |-> ret.id, core |-> call.core, first |-> ret]
    /\ ret' = GtsID(ret.id)
    /\ UNCHANGED <<by_id, reader>>

NextId ==
    \/ /\ call = NoCall
       /\ \E texts \in Chains, tilde \in BOOLEAN, pad \in BOOLEAN, uri \in BOOLEAN :
              ParseId(texts, tilde, pad, uri)
    \/ Reparse

SpecId == InitId /\ [][NextId]_vars

\* C1: an identifier of exactly one well-formed non-wildcard segment is
\* rejected with GtsInvalidId when it has no final '~' and accepted when it
\* has one; a single wildcard segment without '~' is accepted.
C1_SingleSegment ==
    (call.op = "GtsID" /\ Len(call.texts) = 1) =>
        /\ call.texts[1] \in GoodSegs =>
               /\ ret.ok <=> call.tilde
               /\ ~call.tilde => ret.err = "GtsInvalidId"
        /\ (call.texts[1] \in WildSegs /\ ~call.tilde) => ret.ok

C1_Witness ==
    /\ call.op = "GtsID" /\ Len(call.texts) = 1 /\ call.texts[1] \in GoodSegs
    /\ ~call.tilde /\ ~ret.ok /\ call.id # call.core

\* C3: parsing the id of an accepted identifier succeeds again and yields the
\* same normalized id (no blanks, no gts:// prefix) and the same segments.
C3_RoundTrip ==
    call.op = "reparse" =>
        /\ ret.ok
        /\ ret.id = call.first.id
        /\ ret.id = call.core
        /\ ret.segs = call.first.segs

C3_Witness ==
    /\ call.op = "reparse" /\ ret.ok /\ Len(ret.segs) = 2
    /\ ret.segs[2].ver_minor = 2

-----------------------------------------------------------------------------
(* Wildcard matching as a state machine: one call of wildcard_match on a    *)
(* parsed candidate and a parsed pattern.                                   *)

\* segments of patterns: the well-formed ones and those cut by a '*'
PatternSegs == GoodSegs \cup WildSegs \cup {Dotted(NameAPNT \o <<<<"v", "0">>, Tok("*")>>)}

TextsOver(segs) ==
    {CoreOf(texts, tilde) : texts \in UNION {[1..k -> segs] : k \in 1..MaxSegs},
                            tilde \in BOOLEAN}

\* the GtsID objects a candidate can be
Candidates == {g \in {GtsID(x) : x \in TextsOver(GoodSegs)} : g.ok}

\* the GtsWildcard objects a pattern can be
Patterns == {g \in {GtsWildcard(x) : x \in TextsOver(PatternSegs)} : g.ok}

InitMatch == by_id = <<>> /\ reader = <<>> /\ call = NoCall /\ ret = NoRet

WildcardMatch(c, p) ==
    /\ call' = [op |-> "wildcard_match", candidate |-> c, pattern |-> p]
    /\ ret' = [ok |-> TRUE, match |-> wildcard_match(c, p)]
    /\ UNCHANGED <<by_id, reader>>

NextMatch ==
    /\ call = NoCall
    /\ \E c \in Candidates, p \in Patterns : WildcardMatch(c, p)

SpecMatch == InitMatch /\ [][NextMatch]_vars

\* what the claim says of one pattern segment without '*' and the candidate
\* segment at its position
SegmentAgrees(p_seg, c_seg) ==
    /\ p_seg.vendor = c_seg.vendor
    /\ p_seg.package = c_seg.package
    /\ p_seg.namespace = c_seg.namespace
    /\ p_seg.type = c_seg.type
    /\ p_seg.ver_major = c_seg.ver_major
    /\ p_seg.is_type = c_seg.is_type
    /\ p_seg.ver_minor = NoMinor \/ p_seg.ver_minor = c_seg.ver_minor

\* C2: a pattern of segments without '*' matches iff it is no longer than the
\* candidate and every segment agrees with the candidate's segment at its
\* position in vendor, package, namespace, type, major version and is_type,
\* and in the minor version when the pattern gives one; a segment without '*'
\* whose major version differs from the candidate's never matches.
C2_ExactSegments ==
    call.op = "wildcard_match" =>
        LET ps == call.pattern.segs
            cs == call.candidate.segs
        IN  /\ (\A i \in DOMAIN ps : ~ps[i].is_wildcard) =>
                   (ret.match <=> /\ Len(ps) <= Len(cs)
                                  /\ \A i \in DOMAIN ps : SegmentAgrees(ps[i], cs[i]))
            /\ \A i \in 1..Min(Len(ps), Len(cs)) :
                   (~ps[i].is_wildcard /\ ps[i].ver_major # cs[i].ver_major) => ~ret.match

\* a pattern without a minor version matches a candidate that has one
C2_Witness ==
    /\ call.op = "wildcard_match" /\ ret.match
    /\ Len(call.pattern.segs) = 2
    /\ ~call.pattern.segs[2].is_wildcard
    /\ call.pattern.segs[2].ver_minor = NoMinor
    /\ call.candidate.segs[2].ver_minor = 2

-----------------------------------------------------------------------------
(* JSON values as Python holds them: a tagged record per type.  A dict is  *)
(* a function from its keys to its values, a list is a sequence.           *)

JNull == [t |-> "null", v |-> 0]

JBool(b) == [t |-> "bool", v |-> b]

JNum(n) == [t |-> "num", v |-> n]

JStr(s) == [t |-> "str", v |-> s]

JArr(a) == [t |-> "arr", v |-> a]

JObj(f) == [t |-> "obj", v |-> f]

EmptyDict == [k \in {} |-> JNull]

IsDict(x) == x.t = "obj"

IsList(x) == x.t = "arr"

IsStr(x) == x.t = "str"

\* key in d, for a dict d
Has(d, key) == key \in DOMAIN d.v

\* d.get(key, default)
DictGet(d, key, default) == IF key \in DOMAIN d.v THEN d.v[key] ELSE default

\* d[key] = value
DictPut(d, key, value) ==
    JObj([k \in DOMAIN d.v \cup {key} |-> IF k = key THEN value ELSE d.v[k]])

\* del d[key]
DictDel(d, key) == JObj([k \in DOMAIN d.v \ {key} |-> d.v[k]])

DigitChar(n) == CASE n = 0 -> "0" [] n = 1 -> "1" [] n = 2 -> "2" [] n = 3 -> "3"
                  [] n = 4 -> "4" [] n = 5 -> "5" [] n = 6 -> "6" [] n = 7 -> "7"
                  [] n = 8 -> "8" [] n = 9 -> "9"

\* str(n) of a natural number n
RECURSIVE NatStr(_)
NatStr(n) == IF n < 10 THEN <<DigitChar(n)>> ELSE NatStr(n \div 10) \o <<DigitChar(n % 10)>>

\* str(n) of an int
IntStr(n) == IF n < 0 THEN <<"-">> \o NatStr(0 - n) ELSE NatStr(n)

\* str(x) of a scalar JSON value
Str(x) ==
    CASE x.t = "str" -> x.v
      [] x.t = "null" -> <<"N", "o", "n", "e">>
      [] x.t = "bool" -> IF x.v THEN <<"T", "r", "u", "e">> ELSE <<"F", "a", "l", "s", "e">>
      [] x.t = "num" -> IntStr(x.v)

-----------------------------------------------------------------------------
(* entities.py: GtsEntity built with an explicit gts_id (no GtsConfig).    *)

\* gts_id = None
NoGtsId == [ok |-> FALSE, err |-> "None", cause |-> "", id |-> <<>>, segs |-> <<>>]

K_schema == <<"$", "s", "c", "h", "e", "m", "a">>

HttpJsonSchemaOrg ==
    <<"h", "t", "t", "p", ":", "/", "/", "j", "s", "o", "n", "-", "s", "c", "h", "e",
      "m", "a", ".", "o", "r", "g", "/">>

HttpsJsonSchemaOrg ==
    <<"h", "t", "t", "p", "s", ":", "/", "/", "j", "s", "o", "n", "-", "s", "c", "h", "e",
      "m", "a", ".", "o", "r", "g", "/">>

SchemaUrlIsJsonSchema_Legacy(url) ==
    /\ IsStr(url)
    /\ \/ StartsWith(url.v, HttpJsonSchemaOrg) \/ StartsWith(url.v, HttpsJsonSchemaOrg)
       \/ StartsWith(url.v, GTS_URI_PREFIX) \/ StartsWith(url.v, GTS_PREFIX)

SchemaUrlIsJsonSchema(url) ==
    /\ IsStr(url)
    /\ StartsWith(url.v, HttpJsonSchemaOrg) \/ StartsWith(url.v, HttpsJsonSchemaOrg)

_is_json_schema_entity(content) ==
    /\ IsDict(content)
    /\ SchemaUrlIsJsonSchema(DictGet(content, K_schema, JNull))

\* schemaId None and "" are both the empty sequence: the code only asks
\* whether schemaId is truthy
GtsEntity(content, gts_id, is_schema, schemaId) ==
    [gts_id |-> gts_id,
     is_schema |-> is_schema \/ (content # JNull /\ _is_json_schema_entity(content)),
     schemaId |-> schemaId,
     content |-> content]

-----------------------------------------------------------------------------
(* store.py: the registry.  _by_id is a Python dict, held here as the      *)
(* sequence of its (key, entity) items in insertion order.                 *)

KeyIndex(d, key) ==
    IF \E i \in DOMAIN d : d[i].key = key THEN CHOOSE i \in DOMAIN d : d[i].key = key
    ELSE 0

\* key in d
StoreHas(d, key) == KeyIndex(d, key) # 0

\* d[key]
StoreAt(d, key) == d[KeyIndex(d, key)].ent

StorePut_Append(d, key, ent) == Append(d, [key |-> key, ent |-> ent])

\* d[key] = ent: a known key keeps its place, a new key goes last
StorePut(d, key, ent) ==
    IF StoreHas(d, key) THEN [d EXCEPT ![KeyIndex(d, key)].ent = ent]
    ELSE Append(d, [key |-> key, ent |-> ent])

HasValidGtsId(entity) == entity.gts_id.ok /\ entity.gts_id.id # <<>>

RECURSIVE _populate_from_reader(_, _)
_populate_from_reader(d, entities) ==
    IF entities = <<>> THEN d
    ELSE _populate_from_reader(
             IF HasValidGtsId(Head(entities))
             THEN StorePut(d, Head(entities).gts_id.id, Head(entities)) ELSE d,
             Tail(entities))

\* GtsStore(reader)
GtsStore(rd) == _populate_from_reader(<<>>, rd)

\* the registry after register(entity), and whether ValueError was raised
register(d, entity) ==
    IF ~HasValidGtsId(entity)
    THEN [ok |-> FALSE, err |-> "ValueError", by_id |-> d]
    ELSE [ok |-> TRUE, err |-> "", by_id |-> StorePut(d, entity.gts_id.id, entity)]

\* reader.read_by_id(entity_id): the first entity of the reader with that id
ReadIndex(rd, entity_id) ==
    IF \E i \in DOMAIN rd : HasValidGtsId(rd[i]) /\ rd[i].gts_id.id = entity_id
    THEN CHOOSE i \in DOMAIN rd :
             /\ HasValidGtsId(rd[i]) /\ rd[i].gts_id.id = entity_id
             /\ \A j \in 1..(i - 1) : ~(HasValidGtsId(rd[j]) /\ rd[j].gts_id.id = entity_id)
    ELSE 0

get_Uncached(d, rd, entity_id) ==
    IF StoreHas(d, entity_id)
    THEN [found |-> TRUE, ent |-> StoreAt(d, entity_id), by_id |-> d, read |-> FALSE]
    ELSE IF ReadIndex(rd, entity_id) # 0
         THEN [found |-> TRUE, ent |-> rd[ReadIndex(rd, entity_id)], by_id |-> d,
               read |-> TRUE]
    ELSE [found |-> FALSE, ent |-> GtsEntity(JNull, NoGtsId, FALSE, <<>>), by_id |-> d,
          read |-> TRUE]

\* get(entity_id): the entity found (found = FALSE for None) and the registry
\* after the call, which keeps what the reader returned; read tells whether
\* reader.read_by_id was called
get(d, rd, entity_id) ==
    IF StoreHas(d, entity_id)
    THEN [found |-> TRUE, ent |-> StoreAt(d, entity_id), by_id |-> d, read |-> FALSE]
    ELSE IF ReadIndex(rd, entity_id) # 0
         THEN [found |-> TRUE, ent |-> rd[ReadIndex(rd, entity_id)],
               by_id |-> StorePut(d, entity_id, rd[ReadIndex(rd, entity_id)]),
               read |-> TRUE]
    ELSE [found |-> FALSE, ent |-> GtsEntity(JNull, NoGtsId, FALSE, <<>>), by_id |-> d,
          read |-> TRUE]

-----------------------------------------------------------------------------
(* store.py: the query language                                            *)

\* s.partition(c)[0] and s.partition(c)[2]
PartitionHead(s, c) == IF Find(s, c) = 0 THEN s ELSE SubSeq(s, 1, Find(s, c) - 1)

PartitionTail(s, c) == IF Find(s, c) = 0 THEN <<>> ELSE SubSeq(s, Find(s, c) + 1, Len(s))

\* s.rsplit(c, 1)[0]
RSplitHead(s, c) == IF RFind(s, c) = 0 THEN s ELSE SubSeq(s, 1, RFind(s, c) - 1)

\* s.strip(c) for a single character c
RECURSIVE StripChar(_, _)
StripChar(s, c) ==
    IF s # <<>> /\ Head(s) = c THEN StripChar(Tail(s), c)
    ELSE IF s # <<>> /\ s[Len(s)] = c THEN StripChar(SubSeq(s, 1, Len(s) - 1), c)
    ELSE s

\* a dict of filters is a function from the keys to the values
NoFilters == [k \in {} |-> <<>>]

\* k, v = part.split("=", 1); filters[k.strip()] = v.strip().strip('"').strip("'")
FilterKey(part) == Strip(PartitionHead(part, "="))

FilterValue(part) == StripChar(StripChar(Strip(PartitionTail(part, "=")), "\""), "'")

AddFilter(filters, part) ==
    IF Contains(part, "=") THEN (FilterKey(part) :> FilterValue(part)) @@ filters
    ELSE filters

RECURSIVE FiltersOfParts(_, _)
FiltersOfParts(parts, filters) ==
    IF parts = <<>> THEN filters
    ELSE FiltersOfParts(Tail(parts), AddFilter(filters, Strip(Head(parts))))

_parse_query_filters(filter_str) ==
    IF filter_str = <<>> THEN NoFilters
    ELSE FiltersOfParts(Split(filter_str, ","), NoFilters)

\* str(e) of a parse error, as the fragments of its message
ExcStr(e) == <<e.err, e.cause>>

\* the results of _validate_query_pattern; error "" is the empty sequence
PatternError(error) ==
    [wildcard_pattern |-> NoGtsId, exact_gts_id |-> NoGtsId, error |-> error]

ValidatedWildcard(wp) ==
    IF wp.ok THEN [wildcard_pattern |-> wp, exact_gts_id |-> NoGtsId, error |-> <<>>]
    ELSE PatternError(<<"Invalid query: ">> \o ExcStr(wp))

ValidatedExact(g) ==
    IF ~g.ok THEN PatternError(<<"Invalid query: ">> \o ExcStr(g))
    ELSE IF g.segs = <<>> THEN PatternError(<<"Invalid query: GTS ID has no valid segments">>)
    ELSE [wildcard_pattern |-> NoGtsId, exact_gts_id |-> g, error |-> <<>>]

\* mutant of _validate_query_pattern: every pattern is let through
_validate_query_pattern_Unchecked(base_pattern, is_wildcard) == PatternError(<<>>)

_validate_query_pattern(base_pattern, is_wildcard) ==
    IF is_wildcard
    THEN IF ~(EndsWith(base_pattern, <<".", "*">>) \/ EndsWith(base_pattern, <<"~", "*">>))
         THEN PatternError(<<"Invalid query: wildcard patterns must end with .* or ~*">>)
         ELSE ValidatedWildcard(GtsWildcard(base_pattern))
    ELSE ValidatedExact(GtsID(base_pattern))

\* the exact branch: the pattern is parsed again as a wildcard for every entity
MatchesAsWildcard(entity_id, base_pattern, pattern_as_wildcard) ==
    IF pattern_as_wildcard.ok THEN wildcard_match(entity_id, pattern_as_wildcard)
    ELSE entity_id.id = base_pattern

_matches_id_pattern(entity_id, base_pattern, is_wildcard, wildcard_pattern, exact_gts_id) ==
    IF is_wildcard /\ wildcard_pattern.ok THEN wildcard_match(entity_id, wildcard_pattern)
    ELSE IF exact_gts_id.ok
         THEN MatchesAsWildcard(entity_id, base_pattern, GtsWildcard(base_pattern))
    ELSE entity_id.id = base_pattern

\* mutant of FilterHolds: no filter is looked at
FilterHolds_Any(entity_value, value) == TRUE

\* one turn of the loop of _matches_filters; entity_value is
\* str(entity_content.get(key, ""))
FilterHolds(entity_value, value) ==
    IF value = <<"*">>
    THEN ~(entity_value = <<>> \/ entity_value = <<"N", "o", "n", "e">>)
    ELSE entity_value = value

_matches_filters(entity_content, filters) ==
    \A key \in DOMAIN filters :
        FilterHolds(Str(DictGet(entity_content, key, JStr(<<>>))), filters[key])

\* mutant of LimitReached: the loop never stops early
LimitReached_Never(results, limit) == FALSE

\* if len(result.results) >= limit: break
LimitReached(results, limit) == Len(results) >= limit

\* the body of the loop of query: TRUE where entity.content is appended
EntityMatches(entity, base_pattern, is_wildcard, v, filters) ==
    /\ IsDict(entity.content)
    /\ entity.gts_id.ok
    /\ _matches_id_pattern(entity.gts_id, base_pattern, is_wildcard,
                           v.wildcard_pattern, v.exact_gts_id)
    /\ _matches_filters(entity.content, filters)

\* the loop of query over the items of _by_id still to visit
RECURSIVE QueryLoop(_, _, _, _, _, _, _)
QueryLoop(items, limit, base_pattern, is_wildcard, v, filters, results) ==
    IF items = <<>> \/ LimitReached(results, limit) THEN results
    ELSE QueryLoop(Tail(items), limit, base_pattern, is_wildcard, v, filters,
                   IF EntityMatches(Head(items).ent, base_pattern, is_wildcard, v, filters)
                   THEN Append(results, Head(items).ent.content)
                   ELSE results)

GtsStoreQueryResult(error, limit, results) ==
    [error |-> error, count |-> Len(results), limit |-> limit, results |-> results]

QueryValidated(d, limit, base_pattern, is_wildcard, filters, v) ==
    IF v.error # <<>> THEN [error |-> v.error, count |-> 0, limit |-> limit, results |-> <<>>]
    ELSE GtsStoreQueryResult(<<>>, limit,
             QueryLoop(d, limit, base_pattern, is_wildcard, v, filters, <<>>))

QueryParsed(d, limit, base_pattern, filt) ==
    QueryValidated(d, limit, base_pattern, Contains(base_pattern, "*"),
                   _parse_query_filters(IF filt # <<>> THEN RSplitHead(filt, "]") ELSE <<>>),
                   _validate_query_pattern(base_pattern, Contains(base_pattern, "*")))

query(d, expr, limit) ==
    QueryParsed(d, limit, Strip(PartitionHead(expr, "[")), PartitionTail(expr, "["))

-----------------------------------------------------------------------------
(* The store as a state machine: entities are registered one by one, and   *)
(* a query is run on the registry reached.                                 *)

K_status == <<"s", "t", "a", "t", "u", "s">>

K_name == <<"n", "a", "m", "e">>

K_n == <<"n">>

W_active == <<"a", "c", "t", "i", "v", "e">>

W_inactive == <<"i", "n", "a", "c", "t", "i", "v", "e">>

W_alice == <<"a", "l", "i", "c", "e">>

W_bob == <<"b", "o", "b">>

\* the segment a.p.n.<type>.<ver>
SegOf(type, ver) == Dotted(<<Tok("a"), Tok("p"), Tok("n"), Tok(type), ver>>)

V1 == <<"v", "1">>

UserType == SegOf("u", V1)

OrderType == SegOf("o", V1)

\* an instance built as the tests build it: GtsEntity(content=, gts_id=GtsID())
InstanceOf(type, name, content) ==
    GtsEntity(content, GtsID(CoreOf(<<type, SegOf(name, V1)>>, FALSE)), FALSE,
              CoreOf(<<type>>, TRUE))

Alice == InstanceOf(UserType, "x",
                    JObj((K_status :> JStr(W_active)) @@ (K_name :> JStr(W_alice))))

Bob == InstanceOf(UserType, "y",
                  JObj((K_status :> JStr(W_inactive)) @@ (K_name :> JStr(W_bob))
                           @@ (K_n :> JNum(1))))

AnOrder == InstanceOf(OrderType, "z", JObj((K_status :> JStr(W_active)) @@ (K_n :> JNum(1))))

\* content that is no object
AList == InstanceOf(UserType, "l", JArr(<<JStr(W_active)>>))

\* an entity without an identifier, which register refuses
Unidentified == GtsEntity(JObj((K_status :> JStr(W_active))), NoGtsId, FALSE, <<>>)

QueryEntities == {Alice, Bob, AnOrder, AList, Unidentified}

\* base patterns: wildcards, exact identifiers, and patterns the query refuses
QueryBases ==
    { CoreOf(<<Dotted(<<Tok("a"), Tok("p"), Tok("n"), Tok("*")>>)>>, FALSE),
      CoreOf(<<Dotted(<<Tok("a"), Tok("p"), Tok("n"), Tok("u"), Tok("*")>>)>>, FALSE)
          \o <<" ">>,
      CoreOf(<<UserType, Tok("*")>>, FALSE),
      CoreOf(<<UserType, SegOf("x", V1)>>, FALSE),
      CoreOf(<<UserType>>, TRUE),
      CoreOf(<<Dotted(<<Tok("b"), Tok("*")>>)>>, FALSE),
      CoreOf(<<UserType, <<"x", "*">>>>, FALSE),
      CoreOf(<<Dotted(<<Tok("a"), Tok("*"), Tok("n")>>)>>, FALSE),
      CoreOf(<<UserType>>, FALSE) }

\* the filters a query is built from, in the order they are written
QueryFilterPool ==
    << [key |-> K_status, value |-> W_active, quote |-> <<>>],
       [key |-> K_status, value |-> <<"*">>, quote |-> <<>>],
       [key |-> K_name, value |-> W_alice, quote |-> <<"\"">>],
       [key |-> K_name, value |-> <<>>, quote |-> <<>>],
       [key |-> K_n, value |-> <<"1">>, quote |-> <<"'">>] >>

RECURSIVE FiltersAt(_)
FiltersAt(S) ==
    IF S = {} THEN <<>>
    ELSE <<QueryFilterPool[CHOOSE m \in S : \A x \in S : m <= x]>>
             \o FiltersAt(S \ {CHOOSE m \in S : \A x \in S : m <= x})

\* at most MaxFilters filters, no key twice
FilterLists ==
    {FiltersAt(S) : S \in {T \in SUBSET DOMAIN QueryFilterPool :
                              /\ Cardinality(T) <= MaxFilters
                              /\ \A i, j \in T :
                                     QueryFilterPool[i].key = QueryFilterPool[j].key => i = j}}

FilterText(f) == f.key \o <<"=">> \o f.quote \o f.value \o f.quote

\* <base>[<key>=<value>, ...]
ExprOf(base, fl) ==
    IF fl = <<>> THEN base
    ELSE base \o <<"[">> \o Join([i \in DOMAIN fl |-> FilterText(fl[i])], <<",", " ">>)
             \o <<"]">>

InitQuery == by_id = <<>> /\ reader = <<>> /\ call = NoCall /\ ret = NoRet

Register(entity) ==
    /\ Len(by_id) < MaxEntities
    /\ by_id' = register(by_id, entity).by_id
    /\ UNCHANGED <<reader, call, ret>>

Query(base, fl, limit) ==
    /\ call' = [op |-> "query", expr |-> ExprOf(base, fl), base |-> Strip(base),
                filters |-> fl, limit |-> limit]
    /\ ret' = query(by_id, ExprOf(base, fl), limit)
    /\ UNCHANGED <<by_id, reader>>

NextQuery ==
    \/ /\ call = NoCall
       /\ \E entity \in QueryEntities : Register(entity)
    \/ /\ call = NoCall
       /\ \E base \in QueryBases, fl \in FilterLists, limit \in 0..MaxLimit :
              Query(base, fl, limit)

SpecQuery == InitQuery /\ [][NextQuery]_vars

\* the filters that compare with a value: not key=* and not an empty value
PlainFilters(fl) == \A i \in DOMAIN fl : fl[i].value # <<"*">> /\ fl[i].value # <<>>

\* what the claim asks of a returned entity: object content, an identifier
\* that matches the base pattern, and every filter equal to str(content[key])
C4_Selected(entity, pattern, fl) ==
    /\ IsDict(entity.content)
    /\ entity.gts_id.ok
    /\ pattern.ok
    /\ wildcard_match(entity.gts_id, pattern)
    /\ \A i \in DOMAIN fl :
           /\ Has(entity.content, fl[i].key)
           /\ Str(entity.content.v[fl[i].key]) = fl[i].value

RECURSIVE C4_Contents(_, _, _)
C4_Contents(items, pattern, fl) ==
    IF items = <<>> THEN <<>>
    ELSE (IF C4_Selected(Head(items).ent, pattern, fl)
          THEN <<Head(items).ent.content>> ELSE <<>>)
             \o C4_Contents(Tail(items), pattern, fl)

C4_Expected(d, base, fl) == C4_Contents(d, GtsWildcard(base), fl)

\* C4: a query that is accepted, returns fewer results than its limit and
\* has only key=value filters returns exactly the contents of the registered
\* entities with object content, a matching identifier and every filter
\* equal to the string form of content[key], whatever their type.
C4_QueryExact ==
    (/\ call.op = "query"
     /\ ret.error = <<>>
     /\ ret.count < call.limit
     /\ PlainFilters(call.filters))
        => ret.results = C4_Expected(by_id, call.base, call.filters)

\* a filtered wildcard query that returns two entities of different types
\* and leaves out a third one whose status differs
C4_Witness ==
    /\ call.op = "query"
    /\ call.filters # <<>>
    /\ PlainFilters(call.filters)
    /\ ret.error = <<>>
    /\ ret.count < call.limit
    /\ ret.results = <<Alice.content, AnOrder.content>>
    /\ \E i \in DOMAIN by_id : by_id[i].ent = Bob

\* all the entities the query of the call matches, in registry order
AllMatches == query(by_id, call.expr, Len(by_id)).results

\* the count and the results against all the matches of the query
C5_Agrees(all) ==
    /\ ret.count = Len(ret.results)
    /\ ret.count = Min(call.limit, Len(all))
    /\ ret.results = SubSeq(all, 1, ret.count)

\* C5: for an accepted query and a limit >= 0, count = len(results) =
\* min(limit, number of matching entities), and the results are the first
\* matching entities in registry order.
C5_CountIsMin == (call.op = "query" /\ ret.error = <<>>) => C5_Agrees(AllMatches)

\* a query cut by its limit: more entities match than are returned
C5_Witness ==
    /\ call.op = "query"
    /\ ret.error = <<>>
    /\ call.limit >= 1
    /\ ret.count = call.limit
    /\ Len(AllMatches) > call.limit

\* a base pattern with a '*' that ends neither in .* nor in ~*
BadStar(base) ==
    /\ Contains(base, "*")
    /\ ~EndsWith(base, <<".", "*">>)
    /\ ~EndsWith(base, <<"~", "*">>)

\* C6: a query whose base pattern holds a '*' but ends neither in .* nor in
\* ~* returns a non-empty error, no results and count 0, whatever the
\* registry holds, and leaves the registry as it was.
C6_BadStarRejected ==
    [][(call'.op = "query" /\ call.op # "query" /\ BadStar(call'.base)) =>
          /\ ret'.error # <<>>
          /\ ret'.results = <<>>
          /\ ret'.count = 0
          /\ by_id' = by_id]_vars

\* such a query on a registry that holds an entity its prefix would match
C6_Witness ==
    /\ call.op = "query"
    /\ BadStar(call.base)
    /\ ret.error # <<>>
    /\ \E i \in DOMAIN by_id : by_id[i].ent = Alice

-----------------------------------------------------------------------------
(* schema_cast.py: JSON Schema keywords and the texts of the messages      *)

K_properties == <<"p", "r", "o", "p", "e", "r", "t", "i", "e", "s">>

K_required == <<"r", "e", "q", "u", "i", "r", "e", "d">>

K_additionalProperties ==
    <<"a", "d", "d", "i", "t", "i", "o", "n", "a", "l", "P", "r", "o", "p",
      "e", "r", "t", "i", "e", "s">>

K_default == <<"d", "e", "f", "a", "u", "l", "t">>

K_const == <<"c", "o", "n", "s", "t">>

K_type == <<"t", "y", "p", "e">>

K_items == <<"i", "t", "e", "m", "s">>

K_allOf == <<"a", "l", "l", "O", "f">>

W_object == <<"o", "b", "j", "e", "c", "t">>

W_array == <<"a", "r", "r", "a", "y">>

W_string == <<"s", "t", "r", "i", "n", "g">>

W_integer == <<"i", "n", "t", "e", "g", "e", "r">>

\* gts.py GtsID.is_valid
is_valid(s) ==
    /\ StartsWith(IF StartsWith(s, GTS_URI_PREFIX)
                  THEN SubSeq(s, Len(GTS_URI_PREFIX) + 1, Len(s)) ELSE s, GTS_PREFIX)
    /\ GtsID(s).ok

\* repr(s) of a str without quotes in it
Quoted(s) == <<"'">> \o s \o <<"'">>

\* repr(x) of a scalar JSON value
Repr(x) == IF IsStr(x) THEN Quoted(x.v) ELSE Str(x)

\* f"{base_path}.{prop}" if base_path else prop
PathOf(base_path, prop) ==
    IF base_path # <<>> THEN base_path \o <<".">> \o prop ELSE prop

\* f"{base_path}.{prop}[{idx}]" if base_path else f"{prop}[{idx}]"
IndexPathOf(base_path, prop, idx) ==
    PathOf(base_path, prop) \o <<"[">> \o NatStr(idx) \o <<"]">>

MissingRequiredHead ==
    <<"M", "i", "s", "s", "i", "n", "g", " ", "r", "e", "q", "u", "i", "r",
      "e", "d", " ", "p", "r", "o", "p", "e", "r", "t", "y", " ">>

MissingRequiredTail ==
    <<" ", "a", "n", "d", " ", "n", "o", " ", "d", "e", "f", "a", "u", "l",
      "t", " ", "i", "s", " ", "d", "e", "f", "i", "n", "e", "d">>

\* f"Missing required property '{path}' and no default is defined"
MissingRequiredMsg(path) == MissingRequiredHead \o Quoted(path) \o MissingRequiredTail

-----------------------------------------------------------------------------
(* schema_cast.py: _flatten_schema and _effective_object_schema            *)

NoProps == JObj(EmptyDict)

NoList == JArr(<<>>)

\* d.update(other)
DictUpdate(d, other) == JObj(other.v @@ d.v)

\* result = {"properties": {}, "required": []}
FlatEmpty == JObj((K_properties :> NoProps) @@ (K_required :> NoList))

FlatAdditional(result, schema) ==
    IF Has(schema, K_additionalProperties)
    THEN DictPut(result, K_additionalProperties, schema.v[K_additionalProperties])
    ELSE result

\* the properties, required and additionalProperties of schema merged into
\* result: of a flattened sub-schema of allOf, and of the schema itself
FlatMerge(result, schema) ==
    FlatAdditional(
        JObj((K_properties :> DictUpdate(result.v[K_properties],
                                         DictGet(schema, K_properties, NoProps)))
             @@ (K_required :> JArr(result.v[K_required].v
                                        \o DictGet(schema, K_required, NoList).v))
             @@ result.v),
        schema)

RECURSIVE _flatten_schema(_)
RECURSIVE FlattenAllOf(_, _)
FlattenAllOf(subs, result) ==
    IF subs = <<>> THEN result
    ELSE FlattenAllOf(Tail(subs), FlatMerge(result, _flatten_schema(Head(subs))))

_flatten_schema(schema) ==
    FlatMerge(IF Has(schema, K_allOf) THEN FlattenAllOf(schema.v[K_allOf].v, FlatEmpty)
              ELSE FlatEmpty,
              schema)

\* isinstance(s.get("properties"), dict) or isinstance(s.get("required"), list)
HasObjectShape(s) ==
    IsDict(DictGet(s, K_properties, JNull)) \/ IsList(DictGet(s, K_required, JNull))

RECURSIVE FirstShapedPart(_, _)
FirstShapedPart(parts, s) ==
    IF parts = <<>> THEN s
    ELSE IF IsDict(Head(parts)) /\ HasObjectShape(Head(parts)) THEN Head(parts)
    ELSE FirstShapedPart(Tail(parts), s)

_effective_object_schema(s) ==
    IF ~IsDict(s) THEN NoProps
    ELSE IF HasObjectShape(s) THEN s
    ELSE IF IsList(DictGet(s, K_allOf, JNull)) THEN FirstShapedPart(s.v[K_allOf].v, s)
    ELSE s

-----------------------------------------------------------------------------
(* schema_cast.py: _cast_instance_to_schema.  The lists added and removed   *)
(* are sorted and freed of duplicates by cast, and the reasons are built    *)
(* in the order of a Python set, so all three are held as sets.             *)

TargetProps(schema) ==
    IF IsDict(DictGet(schema, K_properties, JNull)) THEN schema.v[K_properties] ELSE NoProps

RequiredSet(schema) ==
    IF IsList(DictGet(schema, K_required, JNull))
    THEN {schema.v[K_required].v[i].v : i \in DOMAIN schema.v[K_required].v}
    ELSE {}

\* isinstance(p_schema, dict) and "default" in p_schema
HasDefault(p_schema) == IsDict(p_schema) /\ Has(p_schema, K_default)

\* step 1: the required properties filled from their default
RequiredFilled(instance, props, required) ==
    {p \in required : ~Has(instance, p) /\ HasDefault(DictGet(props, p, NoProps))}

\* step 1: the required properties without a value and without a default
RequiredMissing(instance, props, required) ==
    {p \in required : ~Has(instance, p) /\ ~HasDefault(DictGet(props, p, NoProps))}

\* mutant of OptionalFilled: optional properties are left as they are
OptionalFilled_None(instance, props, required) == {}

\* step 2: the optional properties filled from their default
OptionalFilled(instance, props, required) ==
    {p \in DOMAIN props.v : p \notin required /\ ~Has(instance, p) /\ HasDefault(props.v[p])}

\* result[prop] = copy.deepcopy(p_schema["default"]) for the filled ones
WithDefaults(instance, props, filled) ==
    JObj([k \in DOMAIN instance.v \cup filled |->
              IF k \in DOMAIN instance.v THEN instance.v[k] ELSE props.v[k].v[K_default]])

\* step 2.5: a const that is a GTS id replaces a different GTS id
StampApplies(old_value, p_schema) ==
    /\ IsDict(p_schema)
    /\ Has(p_schema, K_const)
    /\ IsStr(p_schema.v[K_const])
    /\ IsStr(old_value)
    /\ is_valid(p_schema.v[K_const].v)
    /\ is_valid(old_value.v)
    /\ old_value # p_schema.v[K_const]

Stamped(result, props) ==
    JObj([k \in DOMAIN result.v |->
              IF Has(props, k) /\ StampApplies(result.v[k], props.v[k])
              THEN props.v[k].v[K_const] ELSE result.v[k]])

\* step 3: the properties deleted when additionalProperties is false
Dropped(result, props, additional) ==
    IF additional = JBool(FALSE) THEN DOMAIN result.v \ DOMAIN props.v ELSE {}

Without(result, dropped) == JObj([k \in DOMAIN result.v \ dropped |-> result.v[k]])

PathsOf(base_path, names) == {PathOf(base_path, p) : p \in names}

CastOut(result, added, removed, reasons) ==
    [raised |-> FALSE, result |-> result, added |-> added, removed |-> removed,
     reasons |-> reasons]

\* raise SchemaCastError("Instance must be an object for casting")
CastRaised == [raised |-> TRUE, result |-> JNull, added |-> {}, removed |-> {}, reasons |-> {}]

RECURSIVE _cast_instance_to_schema(_, _, _)
RECURSIVE CastItems(_, _, _, _, _)

ItemsJoined(here, rest) ==
    CastOut(<<here.result>> \o rest.result, here.added \cup rest.added,
            here.removed \cup rest.removed, here.reasons \cup rest.reasons)

\* step 4, the items of an array from the i-th on: the dicts are cast
CastItems(val, nested_schema, base_path, prop, i) ==
    IF i > Len(val) THEN CastOut(<<>>, {}, {}, {})
    ELSE ItemsJoined(
             IF IsDict(val[i])
             THEN _cast_instance_to_schema(val[i], nested_schema,
                                           IndexPathOf(base_path, prop, i - 1))
             ELSE CastOut(val[i], {}, {}, {}),
             CastItems(val, nested_schema, base_path, prop, i + 1))

ListOut(out) == CastOut(JArr(out.result), out.added, out.removed, out.reasons)

IsObjectType(p_schema) == DictGet(p_schema, K_type, JNull) = JStr(W_object)

IsArrayOfObjects(p_schema) ==
    /\ DictGet(p_schema, K_type, JNull) = JStr(W_array)
    /\ IsDict(DictGet(p_schema, K_items, JNull))
    /\ IsObjectType(p_schema.v[K_items])

\* step 4 for the value of one property
CastValue(val, p_schema, base_path, prop) ==
    IF ~IsDict(p_schema) THEN CastOut(val, {}, {}, {})
    ELSE IF IsObjectType(p_schema) /\ IsDict(val)
         THEN _cast_instance_to_schema(val, _effective_object_schema(p_schema),
                                       PathOf(base_path, prop))
    ELSE IF IsArrayOfObjects(p_schema) /\ IsList(val)
         THEN ListOut(CastItems(val.v, _effective_object_schema(p_schema.v[K_items]),
                                base_path, prop, 1))
    ELSE CastOut(val, {}, {}, {})

\* step 4 over the properties of the target that the result holds
CastNested(result, props, base_path, added, removed, reasons) ==
    CastOut(JObj([k \in DOMAIN result.v |->
                      IF Has(props, k)
                      THEN CastValue(result.v[k], props.v[k], base_path, k).result
                      ELSE result.v[k]]),
            added \cup UNION {CastValue(result.v[k], props.v[k], base_path, k).added :
                                 k \in DOMAIN result.v \cap DOMAIN props.v},
            removed \cup UNION {CastValue(result.v[k], props.v[k], base_path, k).removed :
                                   k \in DOMAIN result.v \cap DOMAIN props.v},
            reasons \cup UNION {CastValue(result.v[k], props.v[k], base_path, k).reasons :
                                   k \in DOMAIN result.v \cap DOMAIN props.v})

\* steps 3 and 4 on the result of steps 1 to 2.5
CastShaped(result, props, additional, base_path, added, reasons) ==
    CastNested(Without(result, Dropped(result, props, additional)), props, base_path,
               added, PathsOf(base_path, Dropped(result, props, additional)), reasons)

CastFilled(instance, props, required, additional, base_path, filled) ==
    CastShaped(Stamped(WithDefaults(instance, props, filled), props), props, additional,
               base_path, PathsOf(base_path, filled),
               {MissingRequiredMsg(PathOf(base_path, p)) :
                    p \in RequiredMissing(instance, props, required)})

_cast_instance_to_schema(instance, schema, base_path) ==
    IF ~IsDict(instance) THEN CastRaised
    ELSE CastFilled(instance, TargetProps(schema), RequiredSet(schema),
                    DictGet(schema, K_additionalProperties, JBool(TRUE)), base_path,
                    RequiredFilled(instance, TargetProps(schema), RequiredSet(schema))
                        \cup OptionalFilled(instance, TargetProps(schema),
                                            RequiredSet(schema)))

-----------------------------------------------------------------------------
(* schema_cast.py: _remove_gts_const_constraints                           *)

IsGtsConst(schema) ==
    /\ Has(schema, K_const)
    /\ IsStr(schema.v[K_const])
    /\ is_valid(schema.v[K_const].v)

RECURSIVE _remove_gts_const_constraints(_)

RelaxedItem(item) == IF IsDict(item) THEN _remove_gts_const_constraints(item) ELSE item

RelaxedValue(value) ==
    IF IsDict(value) THEN _remove_gts_const_constraints(value)
    ELSE IF IsList(value) THEN JArr([i \in DOMAIN value.v |-> RelaxedItem(value.v[i])])
    ELSE value

\* a const that is a GTS id becomes "type": "string".  Where the schema has
\* a "type" of its own next to such a const, the code keeps the one its key
\* order visits last; the schemas built here have "string" there or none.
RelaxedDict(schema, keys, relaxed) ==
    JObj([key \in keys |-> IF key = K_type /\ relaxed THEN JStr(W_string)
                           ELSE RelaxedValue(schema.v[key])])

_remove_gts_const_constraints(schema) ==
    IF ~IsDict(schema) THEN schema
    ELSE IF IsGtsConst(schema)
         THEN RelaxedDict(schema, (DOMAIN schema.v \ {K_const}) \cup {K_type}, TRUE)
    ELSE RelaxedDict(schema, DOMAIN schema.v, FALSE)

-----------------------------------------------------------------------------
(* jsonschema.validate, for the keywords type, required, properties,        *)
(* additionalProperties, const, items and allOf: the messages of all the    *)
(* errors of an instance.  The instance is valid when there is none.        *)

TypeOk(inst, type) ==
    CASE type = W_object -> IsDict(inst)
      [] type = W_array -> IsList(inst)
      [] type = W_string -> IsStr(inst)
      [] type = W_integer -> inst.t = "num"
      [] OTHER -> TRUE

NotOfTypeText ==
    <<" ", "i", "s", " ", "n", "o", "t", " ", "o", "f", " ", "t", "y", "p",
      "e", " ">>

RequiredPropertyText ==
    <<" ", "i", "s", " ", "a", " ", "r", "e", "q", "u", "i", "r", "e", "d",
      " ", "p", "r", "o", "p", "e", "r", "t", "y">>

WasExpectedText ==
    <<" ", "w", "a", "s", " ", "e", "x", "p", "e", "c", "t", "e", "d">>

AdditionalHead ==
    <<"A", "d", "d", "i", "t", "i", "o", "n", "a", "l", " ", "p", "r", "o",
      "p", "e", "r", "t", "i", "e", "s", " ", "a", "r", "e", " ", "n", "o",
      "t", " ", "a", "l", "l", "o", "w", "e", "d", " ", "(">>

WasUnexpectedText ==
    <<" ", "w", "a", "s", " ", "u", "n", "e", "x", "p", "e", "c", "t", "e",
      "d", ")">>

WereUnexpectedText ==
    <<" ", "w", "e", "r", "e", " ", "u", "n", "e", "x", "p", "e", "c", "t",
      "e", "d", ")">>

\* the characters of the keys, in the order of their code points
CharOrder ==
    <<"$", "0", "1", "2", "3", "4", "5", "6", "7", "8", "9", "A", "B", "V", "_",
      "a", "b", "c", "d", "e", "f", "g", "h", "i", "j", "k", "l", "m", "n", "o",
      "p", "q", "r", "s", "t", "u", "v", "w", "x", "y", "z">>

CharRank(c) == CHOOSE i \in DOMAIN CharOrder : CharOrder[i] = c

\* a < b for two str
RECURSIVE StrLess(_, _)
StrLess(a, b) ==
    IF b = <<>> THEN FALSE
    ELSE IF a = <<>> THEN TRUE
    ELSE IF Head(a) # Head(b) THEN CharRank(Head(a)) < CharRank(Head(b))
    ELSE StrLess(Tail(a), Tail(b))

\* sorted(names, key=str)
RECURSIVE Sorted(_)
Sorted(names) ==
    IF names = {} THEN <<>>
    ELSE <<CHOOSE m \in names : \A x \in names \ {m} : StrLess(m, x)>>
             \o Sorted(names \ {CHOOSE m \in names : \A x \in names \ {m} : StrLess(m, x)})

ExtrasMsg(extras) ==
    AdditionalHead \o Join([i \in DOMAIN extras |-> Quoted(extras[i])], <<",", " ">>)
        \o (IF Len(extras) = 1 THEN WasUnexpectedText ELSE WereUnexpectedText)

TypeErrors(inst, schema) ==
    IF Has(schema, K_type) /\ IsStr(schema.v[K_type]) /\ ~TypeOk(inst, schema.v[K_type].v)
    THEN {Repr(inst) \o NotOfTypeText \o Quoted(schema.v[K_type].v)}
    ELSE {}

RequiredErrors(inst, schema) ==
    IF IsDict(inst) /\ Has(schema, K_required)
    THEN {Quoted(r) \o RequiredPropertyText : r \in RequiredSet(schema) \ DOMAIN inst.v}
    ELSE {}

AdditionalErrors(inst, schema) ==
    IF /\ IsDict(inst)
       /\ DictGet(schema, K_additionalProperties, JBool(TRUE)) = JBool(FALSE)
       /\ DOMAIN inst.v \ DOMAIN TargetProps(schema).v # {}
    THEN {ExtrasMsg(Sorted(DOMAIN inst.v \ DOMAIN TargetProps(schema).v))}
    ELSE {}

ConstErrors(inst, schema) ==
    IF Has(schema, K_const) /\ inst # schema.v[K_const]
    THEN {Repr(schema.v[K_const]) \o WasExpectedText}
    ELSE {}

RECURSIVE ValidationErrors(_, _)

PropertyErrors(inst, schema) ==
    IF IsDict(inst)
    THEN UNION {ValidationErrors(inst.v[p], TargetProps(schema).v[p]) :
                    p \in DOMAIN inst.v \cap DOMAIN TargetProps(schema).v}
    ELSE {}

ItemsErrors(inst, schema) ==
    IF IsList(inst) /\ IsDict(DictGet(schema, K_items, JNull))
    THEN UNION {ValidationErrors(inst.v[i], schema.v[K_items]) : i \in DOMAIN inst.v}
    ELSE {}

AllOfErrors(inst, schema) ==
    IF IsList(DictGet(schema, K_allOf, JNull))
    THEN UNION {ValidationErrors(inst, schema.v[K_allOf].v[i]) :
                    i \in DOMAIN schema.v[K_allOf].v}
    ELSE {}

ValidationErrors(inst, schema) ==
    IF ~IsDict(schema) THEN {}
    ELSE TypeErrors(inst, schema) \cup RequiredErrors(inst, schema)
             \cup AdditionalErrors(inst, schema) \cup ConstErrors(inst, schema)
             \cup PropertyErrors(inst, schema) \cup ItemsErrors(inst, schema)
             \cup AllOfErrors(inst, schema)

\* the errors _validate_with_gts_id_tolerance can raise
_validate_with_gts_id_tolerance(instance, schema) ==
    ValidationErrors(instance, _remove_gts_const_constraints(schema))

-----------------------------------------------------------------------------
(* schema_cast.py: GtsEntityCastResult.cast.  The backward and forward      *)
(* flags of the result depend on the two schemas alone and are not part of  *)
(* the record kept here.                                                    *)

\* gid.gts_id_segments[-1].ver_minor
LastMinor(gid) == gid.segs[Len(gid.segs)].ver_minor

DirectionOf(gid_from, gid_to) ==
    IF ~gid_from.ok \/ ~gid_to.ok THEN "unknown"
    ELSE IF LastMinor(gid_from) = NoMinor \/ LastMinor(gid_to) = NoMinor THEN "unknown"
    ELSE IF LastMinor(gid_to) > LastMinor(gid_from) THEN "up"
    ELSE IF LastMinor(gid_to) < LastMinor(gid_from) THEN "down"
    ELSE "none"

_infer_direction(from_id, to_id) == DirectionOf(GtsID(from_id), GtsID(to_id))

GtsEntityCastResult(from_id, to_id, direction, out, is_fully_compatible, reasons, casted) ==
    [from_id |-> from_id, to_id |-> to_id, direction |-> direction,
     added_properties |-> out.added, removed_properties |-> out.removed,
     is_fully_compatible |-> is_fully_compatible,
     incompatibility_reasons |-> reasons, casted_entity |-> casted]

InstanceMustBeObject ==
    <<"I", "n", "s", "t", "a", "n", "c", "e", " ", "m", "u", "s", "t", " ",
      "b", "e", " ", "a", "n", " ", "o", "b", "j", "e", "c", "t", " ", "f",
      "o", "r", " ", "c", "a", "s", "t", "i", "n", "g">>

\* the results cast can return: jsonschema reports one of the errors it
\* finds, which one is left open
CastValidated(from_id, to_id, direction, out, errors) ==
    IF errors = {}
    THEN {GtsEntityCastResult(from_id, to_id, direction, out, TRUE, <<>>, out.result)}
    ELSE {GtsEntityCastResult(from_id, to_id, direction, out, FALSE, <<e>>, out.result) :
              e \in errors}

CastApplied(from_id, to_id, direction, out, to_schema_content) ==
    IF out.raised
    THEN {GtsEntityCastResult(from_id, to_id, direction, out, FALSE,
                              <<InstanceMustBeObject>>, JNull)}
    ELSE CastValidated(from_id, to_id, direction, out,
                       _validate_with_gts_id_tolerance(out.result, to_schema_content))

cast(from_instance_id, to_schema_id, from_instance_content, from_schema_content, to_schema_content) ==
    CastApplied(from_instance_id, to_schema_id,
                _infer_direction(from_instance_id, to_schema_id),
                _cast_instance_to_schema(
                    IF IsDict(from_instance_content) THEN from_instance_content
                    ELSE JObj(EmptyDict),
                    _flatten_schema(to_schema_content), <<>>),
                to_schema_content)

-----------------------------------------------------------------------------
(* The cast engine as a state machine: one call of cast on an instance and  *)
(* a target schema.                                                         *)

K_email == <<"e", "m", "a", "i", "l">>

K_addr == <<"a", "d", "d", "r">>

K_city == <<"c", "i", "t", "y">>

K_zip == <<"z", "i", "p">>

K_tags == <<"t", "a", "g", "s">>

K_kind == <<"k", "i", "n", "d">>

K_x == <<"x">>

V10 == <<"v", "1">> \o <<".", "0">>

V11 == <<"v", "1">> \o <<".", "1">>

\* the type identifiers gts.a.p.n.t.v1.0~ and gts.a.p.n.t.v1.1~
TypeV10 == CoreOf(<<SegOf("t", V10)>>, TRUE)

TypeV11 == CoreOf(<<SegOf("t", V11)>>, TRUE)

StringSchema == (K_type :> JStr(W_string))

\* "city" has a default, "zip" has none
CityZip == JObj((K_city :> JObj(StringSchema @@ (K_default :> JStr(<<"c">>))))
                    @@ (K_zip :> JObj(StringSchema)))

\* the schemas a property of the target can have
PropVariants ==
    (K_email :> { JObj(StringSchema @@ (K_default :> JStr(<<"d">>))),
                  JObj(StringSchema) })
    @@ (K_addr :> { JObj((K_type :> JStr(W_object)) @@ (K_properties :> CityZip)
                             @@ (K_default :> JObj(EmptyDict))),
                    JObj((K_type :> JStr(W_object)) @@ (K_properties :> CityZip)
                             @@ (K_required :> JArr(<<JStr(K_zip)>>))) })
    @@ (K_tags :> { JObj((K_type :> JStr(W_array))
                             @@ (K_items :> JObj((K_type :> JStr(W_object))
                                                     @@ (K_properties :> CityZip)
                                                     @@ (K_required :> JArr(<<JStr(K_zip)>>))))
                             @@ (K_default :> JArr(<<>>))) })
    @@ (K_kind :> { JObj((K_const :> JStr(TypeV11)) @@ (K_default :> JStr(TypeV10))),
                    JObj((K_const :> JStr(TypeV11))) })

\* the properties of a target: at most MaxProps names, a variant for each
TargetPropSets ==
    UNION {{f \in [S -> UNION {PropVariants[k] : k \in DOMAIN PropVariants}] :
                \A k \in S : f[k] \in PropVariants[k]} :
           S \in {T \in SUBSET DOMAIN PropVariants : Cardinality(T) <= MaxProps}}

JStrs(names) == [i \in DOMAIN names |-> JStr(names[i])]

\* an object schema over the properties f
ObjectSchema(f, all_required, closed) ==
    JObj((K_type :> JStr(W_object)) @@ (K_properties :> JObj(f))
             @@ (IF all_required THEN (K_required :> JArr(JStrs(Sorted(DOMAIN f))))
                 ELSE EmptyDict)
             @@ (IF closed THEN (K_additionalProperties :> JBool(FALSE)) ELSE EmptyDict))

\* the same schema as the only branch of an allOf
Wrapped(schema, in_all_of) ==
    IF in_all_of THEN JObj((K_allOf :> JArr(<<schema>>))) ELSE schema

TargetSchemas ==
    {Wrapped(ObjectSchema(f, all_required, closed), in_all_of) :
         f \in TargetPropSets, all_required \in BOOLEAN, closed \in BOOLEAN,
         in_all_of \in BOOLEAN}

\* instances: objects with and without the properties of the targets, with
\* values of the right and of the wrong type, and contents that are no object
CastInstances ==
    { JObj(EmptyDict),
      JObj((K_email :> JStr(<<"u">>))),
      JObj((K_email :> JNum(1))),
      JObj((K_email :> JStr(<<"u">>)) @@ (K_x :> JNum(1))),
      JObj((K_addr :> JObj(EmptyDict))),
      JObj((K_addr :> JObj((K_city :> JStr(<<"y">>)) @@ (K_zip :> JStr(<<"z">>))))),
      JObj((K_addr :> JStr(<<"s">>))),
      JObj((K_tags :> JArr(<<JObj(EmptyDict), JNum(1)>>))),
      JObj((K_tags :> JArr(<<JObj((K_zip :> JStr(<<"z">>)))>>)) @@ (K_email :> JStr(<<"u">>))),
      JObj((K_kind :> JStr(TypeV10))),
      JObj((K_kind :> JStr(<<"k">>)) @@ (K_addr :> JObj((K_zip :> JStr(<<"z">>))))),
      JArr(<<JNum(1), JNum(2)>>),
      JStr(<<"s">>),
      JNum(1),
      JBool(TRUE),
      JNull }

\* the identifiers of the instance: under v1.0 and under a type without minor
CastFromIds ==
    { CoreOf(<<SegOf("t", V10), SegOf("i", V10)>>, FALSE),
      CoreOf(<<SegOf("t", V1), SegOf("i", V1)>>, FALSE) }

\* the schema the instance comes from
SourceSchema == ObjectSchema(EmptyDict, FALSE, FALSE)

InitCast == by_id = <<>> /\ reader = <<>> /\ call = NoCall /\ ret = NoRet

Cast(from_id, instance, to_schema) ==
    /\ call' = [op |-> "cast", from_id |-> from_id, to_id |-> TypeV11,
                instance |-> instance, to_schema |-> to_schema]
    /\ ret' \in cast(from_id, TypeV11, instance, SourceSchema, to_schema)
    /\ UNCHANGED <<by_id, reader>>

NextCast ==
    /\ call = NoCall
    /\ \E from_id \in CastFromIds, instance \in CastInstances, to_schema \in TargetSchemas :
           Cast(from_id, instance, to_schema)

SpecCast == InitCast /\ [][NextCast]_vars

\* the properties of the flattened target of the call
C8_Props == TargetProps(_flatten_schema(call.to_schema))

\* the properties of the target with a default that the instance lacks
C8_Filled == {p \in DOMAIN C8_Props.v : HasDefault(C8_Props.v[p]) /\ ~Has(call.instance, p)}

\* a value the steps after the defaults leave alone: no object under a
\* property of type object, no list under an array of objects, and no GTS
\* identifier under a const with another GTS identifier
C8_Plain(value, p_schema) ==
    /\ ~(IsObjectType(p_schema) /\ IsDict(value))
    /\ ~(IsArrayOfObjects(p_schema) /\ IsList(value))
    /\ ~StampApplies(value, p_schema)

\* a value of the instance is not replaced by a default: its path is not
\* among the added ones and, where it is kept and plain, it is unchanged
C8_KeepsPresent ==
    \A p \in DOMAIN call.instance.v :
        /\ p \notin ret.added_properties
        /\ (Has(ret.casted_entity, p) /\ Has(C8_Props, p)
                /\ C8_Plain(call.instance.v[p], C8_Props.v[p]))
               => ret.casted_entity.v[p] = call.instance.v[p]

\* a casted entity that satisfies the target schema is fully compatible
C8_ValidIsCompatible ==
    ValidationErrors(ret.casted_entity, call.to_schema) = {} => ret.is_fully_compatible

\* the statement as claimed: every default filled is in casted_entity
\* exactly as the schema declares it
C8_DefaultsExact ==
    (call.op = "cast" /\ IsDict(call.instance)) =>
        /\ \A p \in C8_Filled :
               /\ Has(ret.casted_entity, p)
               /\ ret.casted_entity.v[p] = C8_Props.v[p].v[K_default]
               /\ p \in ret.added_properties
        /\ C8_KeepsPresent
        /\ C8_ValidIsCompatible

\* C8: when an object instance is cast, every property of the target that
\* declares a default and is missing from the instance is present in
\* casted_entity and its path is in added_properties; its value is exactly
\* the default unless the default is an object under a property of type
\* object, a list under an array of objects, or a GTS identifier under a
\* const with another GTS identifier; a value of the instance is never
\* replaced by a default; and a casted entity that satisfies the target
\* schema makes is_fully_compatible true.
C8_DefaultsFilled ==
    (call.op = "cast" /\ IsDict(call.instance)) =>
        /\ \A p \in C8_Filled :
               /\ Has(ret.casted_entity, p)
               /\ p \in ret.added_properties
               /\ C8_Plain(C8_Props.v[p].v[K_default], C8_Props.v[p])
                      => ret.casted_entity.v[p] = C8_Props.v[p].v[K_default]
        /\ C8_KeepsPresent
        /\ C8_ValidIsCompatible

\* an instance without "email" cast to a target where "email" has a default:
\* the default is filled, listed, and the result is fully compatible
C8_Witness ==
    /\ call.op = "cast"
    /\ IsDict(call.instance)
    /\ K_email \in C8_Filled
    /\ ret.casted_entity.v[K_email] = JStr(<<"d">>)
    /\ K_email \in ret.added_properties
    /\ ret.is_fully_compatible

\* p occurs in s
IsSub(p, s) == \E i \in 1..(Len(s) - Len(p) + 1) : SubSeq(s, i, i + Len(p) - 1) = p

\* the paths of the required properties without a default that the instance
\* lacks, at the top and in its nested objects and arrays of objects
RECURSIVE C9_MissingPaths(_, _, _)

C9_NestedPaths(val, p_schema, base_path, prop) ==
    IF IsObjectType(p_schema) /\ IsDict(val)
    THEN C9_MissingPaths(val, _effective_object_schema(p_schema), PathOf(base_path, prop))
    ELSE IF IsArrayOfObjects(p_schema) /\ IsList(val)
         THEN UNION {IF IsDict(val.v[i])
                     THEN C9_MissingPaths(val.v[i],
                                          _effective_object_schema(p_schema.v[K_items]),
                                          IndexPathOf(base_path, prop, i - 1))
                     ELSE {} : i \in DOMAIN val.v}
    ELSE {}

C9_MissingPaths(instance, schema, base_path) ==
    PathsOf(base_path, RequiredMissing(instance, TargetProps(schema), RequiredSet(schema)))
        \cup UNION {C9_NestedPaths(instance.v[p], TargetProps(schema).v[p], base_path, p) :
                        p \in DOMAIN instance.v \cap DOMAIN TargetProps(schema).v}

\* C9: the cast of an object instance returns a casted_entity, and its
\* incompatibility_reasons name the path of every required property without
\* a default that the instance lacks, at the top and nested.
C9_ReasonsAccumulated ==
    (call.op = "cast" /\ IsDict(call.instance)) =>
        /\ ret.casted_entity # JNull
        /\ \A path \in C9_MissingPaths(call.instance, _flatten_schema(call.to_schema), <<>>) :
               \E i \in DOMAIN ret.incompatibility_reasons :
                   IsSub(path, ret.incompatibility_reasons[i])

\* C10: the cast of an instance that is no object returns no casted_entity,
\* is not fully compatible and reports the cast error.
C10_NonObjectFails ==
    (call.op = "cast" /\ ~IsDict(call.instance)) =>
        /\ ret.casted_entity = JNull
        /\ ~ret.is_fully_compatible
        /\ ret.incompatibility_reasons # <<>>

-----------------------------------------------------------------------------
(* entities.py and store.py: the cast of a registered entity.  The resolver *)
(* of store.cast only serves $ref, which the schemas here do not use.      *)

NoCastResult == JNull

\* an exception leaves the store: its class and text, and the registry as
\* the lookups before it left it
Raised(err, msg, d) == {[err |-> err, msg |-> msg, result |-> NoCastResult, by_id |-> d]}

Returned(results, d) == {[err |-> "", msg |-> "", result |-> r, by_id |-> d] : r \in results}

\* GtsEntity.cast(to_schema, from_schema)
GtsEntity_cast(self, to_schema, from_schema, d) ==
    IF self.is_schema /\ from_schema.gts_id.ok /\ self.gts_id.id # from_schema.gts_id.id
    THEN Raised("SchemaCastError", "Internal error", d)
    ELSE IF ~to_schema.is_schema
         THEN Raised("SchemaCastError", "Target must be a schema", d)
    ELSE IF ~from_schema.is_schema
         THEN Raised("SchemaCastError", "Source schema must be a schema", d)
    ELSE Returned(cast(self.gts_id.id, to_schema.gts_id.id, self.content,
                       from_schema.content, to_schema.content), d)

\* from_schema = self.get(from_schema_id), then the cast
CastWithSourceSchema(from_entity, to_schema, g) ==
    IF ~g.found
    THEN Raised("StoreGtsObjectNotFound", from_entity.schemaId, g.by_id)
    ELSE GtsEntity_cast(from_entity, to_schema, g.ent, g.by_id)

\* "Get the source schema"
CastFromEntity(d, rd, from_id, from_entity, to_schema) ==
    IF from_entity.is_schema
    THEN GtsEntity_cast(from_entity, to_schema, from_entity, d)
    ELSE IF from_entity.schemaId = <<>>
         THEN Raised("StoreGtsSchemaForInstanceNotFound", from_id, d)
    ELSE CastWithSourceSchema(from_entity, to_schema, get(d, rd, from_entity.schemaId))

\* to_schema = self.get(target_schema_id)
CastToTarget(rd, from_id, target_schema_id, from_entity, g) ==
    IF ~g.found
    THEN Raised("StoreGtsObjectNotFound", target_schema_id, g.by_id)
    ELSE CastFromEntity(g.by_id, rd, from_id, from_entity, g.ent)

\* from_entity = self.get(from_id) and the test of its is_schema
CastFromFound(rd, from_id, target_schema_id, g) ==
    IF ~g.found
    THEN Raised("StoreGtsEntityNotFound", from_id, g.by_id)
    ELSE IF g.ent.is_schema
         THEN Raised("StoreGtsCastFromSchemaNotAllowed", from_id, g.by_id)
    ELSE CastToTarget(rd, from_id, target_schema_id, g.ent,
                      get(g.by_id, rd, target_schema_id))

\* GtsStore.cast(from_id, target_schema_id): the possible outcomes
GtsStore_cast(d, rd, from_id, target_schema_id) ==
    CastFromFound(rd, from_id, target_schema_id, get(d, rd, from_id))

-----------------------------------------------------------------------------
(* The store with schemas, instances and entities under a type identifier  *)
(* that are not marked as schemas.                                         *)

\* gts.a.p.n.t.v1.0~ as a file declares it: "$schema" makes it a schema
BaseSchema ==
    GtsEntity(JObj(SourceSchema.v @@ (K_schema :> JStr(HttpJsonSchemaOrg \o <<"s", "c", "h", "e", "m", "a">>))),
              GtsID(TypeV10), FALSE, <<>>)

\* gts.a.p.n.t.v1.1~ as register_schema builds it
NextSchema ==
    GtsEntity(ObjectSchema((K_email :> JObj(StringSchema @@ (K_default :> JStr(<<"d">>)))),
                           FALSE, FALSE),
              GtsID(TypeV11), TRUE, <<>>)

InstanceId == CoreOf(<<SegOf("t", V10), SegOf("i", V10)>>, FALSE)

OrphanId == CoreOf(<<SegOf("t", V10), SegOf("o", V10)>>, FALSE)

UntaggedId == CoreOf(<<SegOf("r", V10)>>, TRUE)

BareId == CoreOf(<<SegOf("q", V10)>>, TRUE)

\* an instance of the base schema
AnInstance == GtsEntity(JObj((K_x :> JNum(1))), GtsID(InstanceId), FALSE, TypeV10)

\* an instance that names no schema
Orphan == GtsEntity(JObj((K_x :> JNum(1))), GtsID(OrphanId), FALSE, <<>>)

\* content without "$schema" under a type identifier, naming a schema
Untagged == GtsEntity(JObj((K_x :> JNum(1))), GtsID(UntaggedId), FALSE, TypeV10)

\* content without "$schema" under a type identifier, as
\* JsonEntity(content=..., gts_id=GtsID("...~")) builds it
Bare == GtsEntity(JObj((K_x :> JNum(1))), GtsID(BareId), FALSE, <<>>)

StoreEntities == {BaseSchema, NextSchema, AnInstance, Orphan, Untagged, Bare}

\* the identifiers a cast starts from: the registered ones and an unknown one
StoreFromIds ==
    {TypeV10, TypeV11, InstanceId, OrphanId, UntaggedId, BareId,
     CoreOf(<<SegOf("t", V10), SegOf("n", V10)>>, FALSE)}

StoreTargetIds == {TypeV11, TypeV10, InstanceId}

InitStore == by_id = GtsStore(<<>>) /\ reader = <<>> /\ call = NoCall /\ ret = NoRet

StoreCast(from_id, target_schema_id) ==
    /\ call' = [op |-> "store.cast", from_id |-> from_id,
                target_schema_id |-> target_schema_id,
                resolved |-> get(by_id, reader, from_id).found]
    /\ \E out \in GtsStore_cast(by_id, reader, from_id, target_schema_id) :
           /\ ret' = [err |-> out.err, msg |-> out.msg, result |-> out.result]
           /\ by_id' = out.by_id
    /\ UNCHANGED reader

NextStore ==
    \/ /\ call = NoCall
       /\ \E entity \in StoreEntities : Register(entity)
    \/ /\ call = NoCall
       /\ \E from_id \in StoreFromIds, target_schema_id \in StoreTargetIds :
              StoreCast(from_id, target_schema_id)

SpecStore == InitStore /\ [][NextStore]_vars

\* C7: a store cast from a type identifier (ending with ~) that resolves to
\* a registered entity raises StoreGtsCastFromSchemaNotAllowed and returns
\* no cast result.
C7_TypeIdRefused ==
    (call.op = "store.cast" /\ EndsWith(call.from_id, <<"~">>) /\ call.resolved) =>
        /\ ret.err = "StoreGtsCastFromSchemaNotAllowed"
        /\ ret.result = NoCastResult

-----------------------------------------------------------------------------
(* schema_cast.py: the compatibility of two schemas.  The errors of a check *)
(* are held as the set of their messages.  Python iterates a set of strings *)
(* in an order that changes from run to run, so a message that joins a set  *)
(* has one text per order, and a check has a set of possible outcomes.      *)

K_enum == <<"e", "n", "u", "m">>

K_minimum == <<"m", "i", "n", "i", "m", "u", "m">>

K_maximum == <<"m", "a", "x", "i", "m", "u", "m">>

K_minLength == <<"m", "i", "n", "L", "e", "n", "g", "t", "h">>

K_maxLength == <<"m", "a", "x", "L", "e", "n", "g", "t", "h">>

K_minItems == <<"m", "i", "n", "I", "t", "e", "m", "s">>

K_maxItems == <<"m", "a", "x", "I", "t", "e", "m", "s">>

W_number == <<"n", "u", "m", "b", "e", "r">>

\* the orders a set can be iterated in
Perms(S) == {p \in [1..Cardinality(S) -> S] : \A x \in S : \E i \in DOMAIN p : p[i] = x}

\* the outcomes where each part contributes one of its outcomes
Cross(A, B) == {a \cup b : a \in A, b \in B}

AddedRequiredText ==
    <<"A", "d", "d", "e", "d", " ", "r", "e", "q", "u", "i", "r", "e", "d",
      " ", "p", "r", "o", "p", "e", "r", "t", "i", "e", "s", ":", " ">>

RemovedRequiredText ==
    <<"R", "e", "m", "o", "v", "e", "d", " ", "r", "e", "q", "u", "i", "r",
      "e", "d", " ", "p", "r", "o", "p", "e", "r", "t", "i", "e", "s", ":",
      " ">>

\* errors.append(f"... required properties: {', '.join(names)}") if names
RequiredChange(head, names) ==
    IF names = {} THEN {{}}
    ELSE {{head \o Join(p, <<",", " ">>)} : p \in Perms(names)}

RequiredCompat_None(old_required, new_required, check_backward) == {{}}

\* "Check required properties changes"
RequiredCompat(old_required, new_required, check_backward) ==
    IF check_backward
    THEN RequiredChange(AddedRequiredText, new_required \ old_required)
    ELSE RequiredChange(RemovedRequiredText, old_required \ new_required)

\* f"Property '{prop}'"
PropertyHead(prop) == <<"P", "r", "o", "p", "e", "r", "t", "y">> \o <<" ">> \o Quoted(prop)

\* Python's truth of a value got from a schema
Truthy(x) ==
    CASE x.t = "null" -> FALSE
      [] x.t = "bool" -> x.v
      [] x.t = "num" -> x.v # 0
      [] x.t = "str" -> x.v # <<>>
      [] x.t = "arr" -> x.v # <<>>
      [] x.t = "obj" -> DOMAIN x.v # {}

TypeChangedText ==
    <<" ", "t", "y", "p", "e", " ", "c", "h", "a", "n", "g", "e", "d", " ",
      "f", "r", "o", "m", " ">>

\* "Check if type changed"
TypeChange(prop, old_type, new_type) ==
    IF Truthy(old_type) /\ Truthy(new_type) /\ old_type # new_type
    THEN {{PropertyHead(prop) \o TypeChangedText \o Str(old_type) \o <<" ", "t", "o", " ">> \o Str(new_type)}}
    ELSE {{}}

\* repr of a set of values in one iteration order: {'a', 'b'}
SetRepr(p) == <<"{">> \o Join([i \in DOMAIN p |-> Repr(p[i])], <<",", " ">>) \o <<"}">>

\* set(enum)
EnumSet(enum) == {enum.v[i] : i \in DOMAIN enum.v}

AddedEnumText ==
    <<" ", "a", "d", "d", "e", "d", " ", "e", "n", "u", "m", " ", "v", "a",
      "l", "u", "e", "s", ":", " ">>

RemovedEnumText ==
    <<" ", "r", "e", "m", "o", "v", "e", "d", " ", "e", "n", "u", "m", " ",
      "v", "a", "l", "u", "e", "s", ":", " ">>

EnumChange(prop, text, values) ==
    IF values = {} THEN {{}}
    ELSE {{PropertyHead(prop) \o text \o SetRepr(p)} : p \in Perms(values)}

\* "Check enum constraints"
EnumCompat(prop, old_enum, new_enum, check_backward) ==
    IF ~(Truthy(old_enum) /\ Truthy(new_enum)) THEN {{}}
    ELSE IF check_backward
         THEN EnumChange(prop, AddedEnumText, EnumSet(new_enum) \ EnumSet(old_enum))
    ELSE EnumChange(prop, RemovedEnumText, EnumSet(old_enum) \ EnumSet(new_enum))

IncreasedFromText ==
    <<" ", "i", "n", "c", "r", "e", "a", "s", "e", "d", " ", "f", "r", "o",
      "m", " ">>

DecreasedFromText ==
    <<" ", "d", "e", "c", "r", "e", "a", "s", "e", "d", " ", "f", "r", "o",
      "m", " ">>

ConstraintText ==
    <<" ", "c", "o", "n", "s", "t", "r", "a", "i", "n", "t">>

\* f"Property '{prop}' {key} <moved> from {old} to {new}"
MovedMsg(prop, key, moved, old, new) ==
    PropertyHead(prop) \o <<" ">> \o key \o moved \o Str(old) \o <<" ", "t", "o", " ">> \o Str(new)

\* one bound of _check_min_max_constraint: a minimum tightens when it
\* increases, a maximum when it decreases
BoundErrors(prop, key, is_min, old, new, check_tightening) ==
    IF old # JNull /\ new # JNull
    THEN IF (check_tightening = is_min) /\ new.v > old.v
         THEN {MovedMsg(prop, key, IncreasedFromText, old, new)}
         ELSE IF (check_tightening # is_min) /\ new.v < old.v
              THEN {MovedMsg(prop, key, DecreasedFromText, old, new)}
         ELSE {}
    ELSE IF check_tightening /\ old = JNull /\ new # JNull
         THEN {PropertyHead(prop) \o <<" ", "a", "d", "d", "e", "d", " ">> \o key \o ConstraintText \o <<":", " ">> \o Str(new)}
    ELSE IF ~check_tightening /\ old # JNull /\ new = JNull
         THEN {PropertyHead(prop) \o <<" ", "r", "e", "m", "o", "v", "e", "d", " ">> \o key \o ConstraintText}
    ELSE {}

_check_min_max_constraint(prop, old_schema, new_schema, min_key, max_key, check_tightening) ==
    BoundErrors(prop, min_key, TRUE, DictGet(old_schema, min_key, JNull),
                DictGet(new_schema, min_key, JNull), check_tightening)
        \cup BoundErrors(prop, max_key, FALSE, DictGet(old_schema, max_key, JNull),
                         DictGet(new_schema, max_key, JNull), check_tightening)

\* the constraints compared depend on the type of the old property
_check_constraint_compatibility(prop, old_prop_schema, new_prop_schema, check_tightening) ==
    (IF DictGet(old_prop_schema, K_type, JNull) \in {JStr(W_number), JStr(W_integer)}
     THEN _check_min_max_constraint(prop, old_prop_schema, new_prop_schema,
                                    K_minimum, K_maximum, check_tightening)
     ELSE {})
    \cup (IF DictGet(old_prop_schema, K_type, JNull) = JStr(W_string)
          THEN _check_min_max_constraint(prop, old_prop_schema, new_prop_schema,
                                         K_minLength, K_maxLength, check_tightening)
          ELSE {})
    \cup (IF DictGet(old_prop_schema, K_type, JNull) = JStr(W_array)
          THEN _check_min_max_constraint(prop, old_prop_schema, new_prop_schema,
                                         K_minItems, K_maxItems, check_tightening)
          ELSE {})

RECURSIVE _check_schema_compatibility(_, _, _)

\* errors.append(f"Property '{prop}': {err}") for the errors of a nested check
Prefixed(prop, errors) == {PropertyHead(prop) \o <<":", " ">> \o err : err \in errors}

\* "Recursively check nested object properties"
NestedCompat(prop, old_prop_schema, new_prop_schema, check_backward) ==
    IF /\ DictGet(old_prop_schema, K_type, JNull) = JStr(W_object)
       /\ DictGet(new_prop_schema, K_type, JNull) = JStr(W_object)
    THEN {Prefixed(prop, errors) :
              errors \in _check_schema_compatibility(old_prop_schema, new_prop_schema,
                                                     check_backward)}
    ELSE {{}}

\* the body of the loop over common_props for one property
PropertyCompat(prop, old_prop_schema, new_prop_schema, check_backward) ==
    Cross(Cross(TypeChange(prop, DictGet(old_prop_schema, K_type, JNull),
                           DictGet(new_prop_schema, K_type, JNull)),
                EnumCompat(prop, DictGet(old_prop_schema, K_enum, JNull),
                           DictGet(new_prop_schema, K_enum, JNull), check_backward)),
          Cross({_check_constraint_compatibility(prop, old_prop_schema, new_prop_schema,
                                                 check_backward)},
                NestedCompat(prop, old_prop_schema, new_prop_schema, check_backward)))

RECURSIVE CommonCompat(_, _, _, _)

CommonCompatFrom(prop, common_props, old_props, new_props, check_backward) ==
    Cross(PropertyCompat(prop, old_props.v[prop], new_props.v[prop], check_backward),
          CommonCompat(common_props \ {prop}, old_props, new_props, check_backward))

\* "Check properties that exist in both schemas"
CommonCompat(common_props, old_props, new_props, check_backward) ==
    IF common_props = {} THEN {{}}
    ELSE CommonCompatFrom(CHOOSE prop \in common_props : TRUE, common_props,
                          old_props, new_props, check_backward)

CompatOfFlat(old_flat, new_flat, check_backward) ==
    Cross(RequiredCompat(RequiredSet(old_flat), RequiredSet(new_flat), check_backward),
          CommonCompat(DOMAIN old_flat.v[K_properties].v \cap DOMAIN new_flat.v[K_properties].v,
                       old_flat.v[K_properties], new_flat.v[K_properties], check_backward))

\* the possible error lists; is_compatible is len(errors) == 0
_check_schema_compatibility(old_schema, new_schema, check_backward) ==
    CompatOfFlat(_flatten_schema(old_schema), _flatten_schema(new_schema), check_backward)

_check_backward_compatibility(old_schema, new_schema) ==
    _check_schema_compatibility(old_schema, new_schema, TRUE)

_check_forward_compatibility(old_schema, new_schema) ==
    _check_schema_compatibility(old_schema, new_schema, FALSE)

-----------------------------------------------------------------------------
(* store.py: is_minor_compatible                                            *)

SchemaNotFoundText ==
    <<"S", "c", "h", "e", "m", "a", " ", "n", "o", "t", " ", "f", "o", "u",
      "n", "d">>

\* the JsonEntityCastResult of is_minor_compatible; the lists it leaves
\* empty (added, removed and changed properties, reasons) are not kept
MinorCompatResult(old_schema_id, new_schema_id, direction, backward_errors, forward_errors) ==
    [from_id |-> old_schema_id, to_id |-> new_schema_id, direction |-> direction,
     is_fully_compatible |-> backward_errors = {} /\ forward_errors = {},
     is_backward_compatible |-> backward_errors = {},
     is_forward_compatible |-> forward_errors = {},
     backward_errors |-> backward_errors, forward_errors |-> forward_errors,
     casted_entity |-> JNull]

MinorCompatNotFound(old_schema_id, new_schema_id) ==
    [from_id |-> old_schema_id, to_id |-> new_schema_id, direction |-> "unknown",
     is_fully_compatible |-> FALSE, is_backward_compatible |-> FALSE,
     is_forward_compatible |-> FALSE,
     backward_errors |-> {SchemaNotFoundText}, forward_errors |-> {SchemaNotFoundText},
     casted_entity |-> JNull]

\* entity.content if isinstance(entity.content, dict) else {}
SchemaOf(entity) == IF IsDict(entity.content) THEN entity.content ELSE JObj(EmptyDict)

MinorCompatOf(old_schema_id, new_schema_id, old_schema, new_schema) ==
    {MinorCompatResult(old_schema_id, new_schema_id,
                       _infer_direction(old_schema_id, new_schema_id), be, fe) :
         be \in _check_backward_compatibility(old_schema, new_schema),
         fe \in _check_forward_compatibility(old_schema, new_schema)}

MinorCompatFound(old_schema_id, new_schema_id, g_old, g_new) ==
    IF ~g_old.found \/ ~g_new.found
    THEN {[result |-> MinorCompatNotFound(old_schema_id, new_schema_id), by_id |-> g_new.by_id]}
    ELSE {[result |-> r, by_id |-> g_new.by_id] :
              r \in MinorCompatOf(old_schema_id, new_schema_id,
                                  SchemaOf(g_old.ent), SchemaOf(g_new.ent))}

MinorCompatAfter(rd, old_schema_id, new_schema_id, g_old) ==
    MinorCompatFound(old_schema_id, new_schema_id, g_old, get(g_old.by_id, rd, new_schema_id))

\* GtsStore.is_minor_compatible(old_schema_id, new_schema_id): the possible
\* results, each with the registry the two lookups leave
is_minor_compatible(d, rd, old_schema_id, new_schema_id) ==
    MinorCompatAfter(rd, old_schema_id, new_schema_id, get(d, rd, old_schema_id))

-----------------------------------------------------------------------------
(* The store with two versions of a schema, compared in both directions.    *)

K_pname == <<"n", "a", "m", "e">>

W_a == <<"a">>

W_b == <<"b">>

\* the shapes the properties of a version can have: as first published,
\* with constraints added, and with the type of "name" changed
CompatShapes ==
    { (K_pname :> JObj(StringSchema))
        @@ (K_email :> JObj(StringSchema))
        @@ (K_addr :> JObj((K_type :> JStr(W_object)) @@ (K_properties :> CityZip))),
      (K_pname :> JObj(StringSchema @@ (K_minLength :> JNum(1))
                           @@ (K_enum :> JArr(<<JStr(W_a), JStr(W_b)>>))))
        @@ (K_email :> JObj(StringSchema @@ (K_maxLength :> JNum(9))))
        @@ (K_addr :> JObj((K_type :> JStr(W_object)) @@ (K_properties :> CityZip)
                               @@ (K_required :> JArr(<<JStr(K_zip)>>)))),
      (K_pname :> JObj((K_type :> JStr(W_integer)) @@ (K_minimum :> JNum(0))
                           @@ (K_enum :> JArr(<<JStr(W_a)>>))))
        @@ (K_email :> JObj(StringSchema @@ (K_maxLength :> JNum(5)))) }

\* the version with the properties f and the required names: written
\* directly, or with the required list in a branch of allOf
CompatSchema(f, required, in_all_of) ==
    IF in_all_of
    THEN JObj((K_allOf :> JArr(<<JObj((K_required :> JArr(JStrs(Sorted(required)))))>>))
                  @@ (K_type :> JStr(W_object)) @@ (K_properties :> JObj(f)))
    ELSE JObj((K_type :> JStr(W_object)) @@ (K_properties :> JObj(f))
                  @@ (K_required :> JArr(JStrs(Sorted(required)))))

CompatSchemas ==
    {CompatSchema(f, required, FALSE) :
         f \in CompatShapes, required \in SUBSET {K_pname, K_email}}
    \cup {CompatSchema(f, {K_pname, K_email}, TRUE) : f \in CompatShapes}

\* the schemas registered as register_schema does, and content that is no
\* object
CompatEntities ==
    {GtsEntity(schema, GtsID(type_id), TRUE, <<>>) :
         schema \in CompatSchemas, type_id \in {TypeV10, TypeV11}}
    \cup {GtsEntity(JArr(<<>>), GtsID(TypeV10), TRUE, <<>>)}

\* the identifiers compared: the two versions and one never registered
CompatIds == {TypeV10, TypeV11, CoreOf(<<SegOf("t", V1)>>, TRUE)}

InitCompat == by_id = GtsStore(<<>>) /\ reader = <<>> /\ call = NoCall /\ ret = NoRet

IsMinorCompatible(old_schema_id, new_schema_id) ==
    /\ call' = [op |-> "is_minor_compatible", old_schema_id |-> old_schema_id,
                new_schema_id |-> new_schema_id,
                found |-> StoreHas(by_id, old_schema_id) /\ StoreHas(by_id, new_schema_id)]
    /\ \E out \in is_minor_compatible(by_id, reader, old_schema_id, new_schema_id) :
           /\ ret' = out.result
           /\ by_id' = out.by_id
    /\ UNCHANGED reader

NextCompat ==
    \/ /\ call = NoCall
       /\ \E entity \in CompatEntities : Register(entity)
    \/ /\ call = NoCall
       /\ \E old_schema_id \in CompatIds, new_schema_id \in CompatIds :
              IsMinorCompatible(old_schema_id, new_schema_id)

SpecCompat == InitCompat /\ [][NextCompat]_vars

\* the flattened required set of the schema registered under id
C11_Required(id) == RequiredSet(_flatten_schema(SchemaOf(StoreAt(by_id, id))))

\* an error of the required check with that head names every one of names
C11_Names(errors, head, names) ==
    \E e \in errors : StartsWith(e, head)
                        /\ \A p \in names : IsSub(p, SubSeq(e, Len(head) + 1, Len(e)))

C11_NoRequiredReason(errors) ==
    \A e \in errors : ~StartsWith(e, AddedRequiredText) /\ ~StartsWith(e, RemovedRequiredText)

C11_Holds(old_required, new_required) ==
    /\ new_required \ old_required # {}
           => /\ ~ret.is_backward_compatible
              /\ C11_Names(ret.backward_errors, AddedRequiredText, new_required \ old_required)
    /\ old_required \ new_required # {}
           => /\ ~ret.is_forward_compatible
              /\ C11_Names(ret.forward_errors, RemovedRequiredText, old_required \ new_required)
    /\ old_required = new_required
           => C11_NoRequiredReason(ret.backward_errors \cup ret.forward_errors)

\* C11: for two registered schemas, is_minor_compatible reports backward
\* incompatibility with an error naming every property required by the new
\* schema and not by the old one, forward incompatibility with an error
\* naming every property required by the old and not by the new one, and no
\* required-property reason for the two schemas when their flattened
\* required sets are equal.
C11_RequiredChanges ==
    (call.op = "is_minor_compatible" /\ call.found) =>
        C11_Holds(C11_Required(call.old_schema_id), C11_Required(call.new_schema_id))

\* the new version requires name and email, the old one requires nothing
C11_Witness ==
    /\ call.op = "is_minor_compatible"
    /\ call.found
    /\ C11_Required(call.old_schema_id) = {}
    /\ C11_Required(call.new_schema_id) = {K_pname, K_email}
    /\ ~ret.is_backward_compatible
    /\ ret.is_forward_compatible

-----------------------------------------------------------------------------
(* entities.py: the GTS identifiers found in a content, and store.py:      *)
(* build_schema_graph.  A dict is walked in the order of its keys, which    *)
(* is taken here as the sorted one; a node of the graph is a record whose   *)
(* refs, schema_id and errors are empty where the code leaves the key out.  *)

MaxDepth == 6

W_root == <<"r", "o", "o", "t">>

\* val[6:] if val.startswith("gts://")
StripGtsUri(val) ==
    IF StartsWith(val, GTS_URI_PREFIX) THEN SubSeq(val, Len(GTS_URI_PREFIX) + 1, Len(val))
    ELSE val

\* gts_id_matcher(node, path)
gts_id_matcher(node, path) ==
    IF IsStr(node) /\ is_valid(StripGtsUri(node.v))
    THEN <<[id |-> StripGtsUri(node.v), sourcePath |-> IF path # <<>> THEN path ELSE W_root]>>
    ELSE <<>>

RECURSIVE walk(_, _)

RECURSIVE WalkKeys(_, _, _)

\* for k, v in node.items(): walk(v, f"{current_path}.{k}" if current_path else k)
WalkKeys(node, keys, current_path) ==
    IF keys = <<>> THEN <<>>
    ELSE walk(node.v[Head(keys)], PathOf(current_path, Head(keys)))
             \o WalkKeys(node, Tail(keys), current_path)

RECURSIVE WalkItems(_, _, _)

\* for idx, item in enumerate(node): walk(item, f"{current_path}[{idx}]")
WalkItems(node, idx, current_path) ==
    IF idx >= Len(node.v) THEN <<>>
    ELSE walk(node.v[idx + 1], current_path \o <<"[">> \o NatStr(idx) \o <<"]">>)
             \o WalkItems(node, idx + 1, current_path)

\* _walk_and_collect with the matcher of GTS identifiers
walk(node, current_path) ==
    IF node = JNull THEN <<>>
    ELSE gts_id_matcher(node, current_path)
             \o (IF IsDict(node) THEN WalkKeys(node, Sorted(DOMAIN node.v), current_path)
                 ELSE IF IsList(node) THEN WalkItems(node, 0, current_path)
                 ELSE <<>>)

\* entity.gts_refs: a path is met once, so no two items share id and path
_extract_gts_ids_with_paths(content) == walk(content, <<>>)

HttpJsonSchemaHost ==
    <<"h", "t", "t", "p", ":", "/", "/", "j", "s", "o", "n", "-", "s", "c",
      "h", "e", "m", "a", ".", "o", "r", "g">>

HttpsJsonSchemaHost ==
    <<"h", "t", "t", "p", "s", ":", "/", "/", "j", "s", "o", "n", "-", "s",
      "c", "h", "e", "m", "a", ".", "o", "r", "g">>

IsJsonSchemaUrl(id) == StartsWith(id, HttpJsonSchemaHost) \/ StartsWith(id, HttpsJsonSchemaHost)

SchemaNotRecognized ==
    <<"S", "c", "h", "e", "m", "a", " ", "n", "o", "t", " ", "r", "e", "c",
      "o", "g", "n", "i", "z", "e", "d">>

EntityNotFound ==
    <<"E", "n", "t", "i", "t", "y", " ", "n", "o", "t", " ", "f", "o", "u",
      "n", "d">>

\* ret = {"id": gts_id} with the keys added to it
GraphNode(gts_id, refs, schema_id, errors) ==
    [id |-> gts_id, refs |-> refs, schema_id |-> schema_id, errors |-> errors]

RecursionError == <<"R", "e", "c", "u", "r", "s", "i", "o", "n", "E", "r", "r", "o", "r">>

\* what a recursion deeper than MaxDepth leaves in the graph
Unfinished(gts_id) == GraphNode(gts_id, <<>>, <<>>, <<RecursionError>>)

Seen_Never(gts_id, seen_gts_ids) == FALSE

\* if gts_id in seen_gts_ids
Seen(gts_id, seen_gts_ids) == gts_id \in seen_gts_ids

RECURSIVE gts2node(_, _, _, _, _)

RECURSIVE RefsLoop(_, _, _, _, _, _, _)

\* refs[r["sourcePath"]] = gts2node(r["id"], seen_gts_ids), then the next r
RefsNext(rd, gts_id, rest, depth, refs, sourcePath, sub) ==
    RefsLoop(sub.by_id, rd, gts_id, rest, sub.seen, depth,
             Append(refs, [sourcePath |-> sourcePath, node |-> sub.node]))

\* for r in entity.gts_refs
RefsLoop(d, rd, gts_id, gts_refs, seen_gts_ids, depth, refs) ==
    IF gts_refs = <<>> THEN [refs |-> refs, seen |-> seen_gts_ids, by_id |-> d]
    ELSE IF Head(gts_refs).id = gts_id \/ IsJsonSchemaUrl(Head(gts_refs).id)
         THEN RefsLoop(d, rd, gts_id, Tail(gts_refs), seen_gts_ids, depth, refs)
    ELSE RefsNext(rd, gts_id, Tail(gts_refs), depth, refs, Head(gts_refs).sourcePath,
                  gts2node(d, rd, Head(gts_refs).id, seen_gts_ids, depth + 1))

WithSchemaNode(gts_id, refs, sub) ==
    [node |-> GraphNode(gts_id, refs, <<sub.node>>, <<>>), seen |-> sub.seen,
     by_id |-> sub.by_id]

\* the schema_id or the error of a node whose refs are done
SchemaPart(rd, gts_id, entity, depth, r) ==
    IF entity.schemaId = <<>>
    THEN [node |-> GraphNode(gts_id, r.refs, <<>>, <<SchemaNotRecognized>>),
          seen |-> r.seen, by_id |-> r.by_id]
    ELSE IF IsJsonSchemaUrl(entity.schemaId)
         THEN [node |-> GraphNode(gts_id, r.refs, <<>>, <<>>), seen |-> r.seen,
               by_id |-> r.by_id]
    ELSE WithSchemaNode(gts_id, r.refs,
                        gts2node(r.by_id, rd, entity.schemaId, r.seen, depth + 1))

\* entity = self.get(gts_id) and what follows
Expanded(rd, gts_id, seen_gts_ids, depth, g) ==
    IF ~g.found
    THEN [node |-> GraphNode(gts_id, <<>>, <<>>, <<EntityNotFound>>),
          seen |-> seen_gts_ids, by_id |-> g.by_id]
    ELSE SchemaPart(rd, gts_id, g.ent, depth,
                    RefsLoop(g.by_id, rd, gts_id, _extract_gts_ids_with_paths(g.ent.content),
                             seen_gts_ids, depth, <<>>))

\* gts2node(gts_id, seen_gts_ids): the node, the set of the identifiers seen
\* and the registry after it
gts2node(d, rd, gts_id, seen_gts_ids, depth) ==
    IF depth > MaxDepth
    THEN [node |-> Unfinished(gts_id), seen |-> seen_gts_ids, by_id |-> d]
    ELSE IF Seen(gts_id, seen_gts_ids)
         THEN [node |-> GraphNode(gts_id, <<>>, <<>>, <<>>), seen |-> seen_gts_ids, by_id |-> d]
    ELSE Expanded(rd, gts_id, seen_gts_ids \cup {gts_id}, depth, get(d, rd, gts_id))

build_schema_graph(d, rd, gts_id) == gts2node(d, rd, gts_id, {}, 1)

-----------------------------------------------------------------------------
(* The store with entities that refer to each other, to themselves and to  *)
(* an identifier that is not registered.                                    *)

K_y == <<"y">>

\* gts.a.p.n.t.v1.0~, referring to v1.1 and, in its second form, to itself
GraphA1 == GtsEntity(JObj((K_x :> JStr(TypeV11))), GtsID(TypeV10), TRUE, <<>>)

GraphA2 ==
    GtsEntity(JObj((K_x :> JStr(TypeV10)) @@ (K_y :> JStr(TypeV11))), GtsID(TypeV10), TRUE,
              TypeV11)

\* gts.a.p.n.t.v1.1~, referring back to v1.0, to the instance and to the
\* unregistered identifier
GraphB1 == GtsEntity(JObj((K_x :> JStr(TypeV10))), GtsID(TypeV11), TRUE, TypeV10)

GraphB2 ==
    GtsEntity(JObj((K_x :> JStr(InstanceId))
                       @@ (K_y :> JArr(<<JStr(TypeV10), JStr(GTS_URI_PREFIX \o OrphanId)>>))),
              GtsID(TypeV11), TRUE, HttpJsonSchemaOrg \o <<"s", "c", "h", "e", "m", "a">>)

\* the instance, whose schema identifier is v1.0 or itself
GraphC1 ==
    GtsEntity(JObj((K_x :> JStr(TypeV10)) @@ (K_y :> JStr(TypeV11))), GtsID(InstanceId), FALSE,
              TypeV10)

GraphC2 == GtsEntity(JObj((K_x :> JStr(OrphanId))), GtsID(InstanceId), FALSE, InstanceId)

GraphEntities == {GraphA1, GraphA2, GraphB1, GraphB2, GraphC1, GraphC2}

GraphIds == {TypeV10, TypeV11, InstanceId, OrphanId}

InitGraph == by_id = GtsStore(<<>>) /\ reader = <<>> /\ call = NoCall /\ ret = NoRet

BuildSchemaGraph(gts_id) ==
    /\ call' = [op |-> "build_schema_graph", gts_id |-> gts_id]
    /\ ret' = build_schema_graph(by_id, reader, gts_id).node
    /\ by_id' = build_schema_graph(by_id, reader, gts_id).by_id
    /\ UNCHANGED reader

NextGraph ==
    \/ /\ call = NoCall
       /\ \E entity \in GraphEntities : Register(entity)
    \/ /\ call = NoCall
       /\ \E gts_id \in GraphIds : BuildSchemaGraph(gts_id)

SpecGraph == InitGraph /\ [][NextGraph]_vars

\* a node that is {"id": ...} and nothing else
C12_Bare(node) == node.refs = <<>> /\ node.schema_id = <<>> /\ node.errors = <<>>

RECURSIVE C12_Nodes(_)

RECURSIVE C12_NodesOfRefs(_)

C12_NodesOfRefs(refs) ==
    IF refs = <<>> THEN <<>> ELSE C12_Nodes(Head(refs).node) \o C12_NodesOfRefs(Tail(refs))

\* the nodes of a graph in the order they were built: the node, the nodes
\* of its refs, the nodes of its schema_id
C12_Nodes(node) ==
    <<[id |-> node.id, bare |-> C12_Bare(node), errors |-> node.errors]>>
        \o C12_NodesOfRefs(node.refs)
        \o (IF node.schema_id = <<>> THEN <<>> ELSE C12_Nodes(node.schema_id[1]))

C12_OnceIn(nodes) ==
    /\ \A i \in DOMAIN nodes : nodes[i].errors # <<RecursionError>>
    /\ \A i, j \in DOMAIN nodes : (i < j /\ nodes[i].id = nodes[j].id) => nodes[j].bare

\* C12: build_schema_graph ends within the depth of the registry, and in
\* its output only the first occurrence of an identifier carries refs,
\* schema_id or errors: every later occurrence is a bare {id}.
C12_ExpandedOnce == call.op = "build_schema_graph" => C12_OnceIn(C12_Nodes(ret))

C12_Revisits(nodes) ==
    \E i, j \in DOMAIN nodes : i < j /\ nodes[i].id = nodes[j].id /\ ~nodes[i].bare

\* the graph of v1.0 when v1.0 and v1.1 refer to each other: v1.0 occurs
\* again below v1.1
C12_Witness ==
    /\ call.op = "build_schema_graph"
    /\ call.gts_id = TypeV10
    /\ StoreHas(by_id, TypeV10) /\ StoreHas(by_id, TypeV11)
    /\ C12_Revisits(C12_Nodes(ret))

-----------------------------------------------------------------------------
(* path_resolver.py: GtsPathResolver.  error None is the empty text, value  *)
(* None is JNull; a dict is listed in the sorted order of its keys.         *)

MaxPathLen == 2

\* path.replace("/", ".")
_normalize(path) == [i \in DOMAIN path |-> IF path[i] = "/" THEN "." ELSE path[i]]

\* [seg for seg in norm.split(".") if seg != ""]
_split_raw_parts(norm) == SelectSeq(Split(norm, "."), LAMBDA seg : seg # <<>>)

\* out.append(buf) if buf
Flushed(out, buf) == IF buf # <<>> THEN Append(out, buf) ELSE out

RECURSIVE ParsePartFrom(_, _, _, _)

\* at "[": j = seg.find("]", i + 1), 1-based here and 0 for not found
ParsePartBracket(seg, i, buf, out, j) ==
    IF j = 0 THEN Flushed(Flushed(out, buf), SubSeq(seg, i, Len(seg)))
    ELSE ParsePartFrom(seg, j + 1, <<>>, Append(Flushed(out, buf), SubSeq(seg, i, j)))

\* the while loop of _parse_part from position i
ParsePartFrom(seg, i, buf, out) ==
    IF i > Len(seg) THEN Flushed(out, buf)
    ELSE IF seg[i] = "["
         THEN ParsePartBracket(seg, i, buf, out, FindFrom(seg, "]", i + 1))
    ELSE ParsePartFrom(seg, i + 1, Append(buf, seg[i]), out)

_parse_part(seg) == ParsePartFrom(seg, 1, <<>>, <<>>)

RECURSIVE PartsOfRaw(_)

PartsOfRaw(raw) ==
    IF raw = <<>> THEN <<>> ELSE _parse_part(Head(raw)) \o PartsOfRaw(Tail(raw))

_parts(path) == PartsOfRaw(_split_raw_parts(_normalize(path)))

RECURSIVE _list_available(_, _)

RECURSIVE ListKeys(_, _, _)

\* out.append(p) and the fields below v, for the keys of a dict
ListKeys(node, keys, prefix) ==
    IF keys = <<>> THEN <<>>
    ELSE <<PathOf(prefix, Head(keys))>>
             \o _list_available(node.v[Head(keys)], PathOf(prefix, Head(keys)))
             \o ListKeys(node, Tail(keys), prefix)

RECURSIVE ListItems(_, _, _)

\* the same for the items of a list: f"{prefix}[{i}]", or f"[{i}]"
ListItems(node, i, prefix) ==
    IF i >= Len(node.v) THEN <<>>
    ELSE <<prefix \o <<"[">> \o NatStr(i) \o <<"]">>>>
             \o _list_available(node.v[i + 1], prefix \o <<"[">> \o NatStr(i) \o <<"]">>)
             \o ListItems(node, i + 1, prefix)

_list_available(node, prefix) ==
    IF IsDict(node) THEN ListKeys(node, Sorted(DOMAIN node.v), prefix)
    ELSE IF IsList(node) THEN ListItems(node, 0, prefix)
    ELSE <<>>

_collect_from(node) == _list_available(node, <<>>)

NoError == <<>>

\* the resolver after resolve: raised is set where the code would let an
\* exception out
Resolution(resolved, value, error, available_fields) ==
    [raised |-> FALSE, resolved |-> resolved, value |-> value, error |-> error,
     available_fields |-> available_fields]

ResolveRaised(exception) ==
    [raised |-> TRUE, resolved |-> FALSE, value |-> JNull, error |-> exception,
     available_fields |-> <<>>]

ResolveFailed(error, cur) == Resolution(FALSE, JNull, error, _collect_from(cur))

ExpectedIndexText ==
    <<"E", "x", "p", "e", "c", "t", "e", "d", " ", "l", "i", "s", "t", " ",
      "i", "n", "d", "e", "x", " ", "a", "t", " ", "s", "e", "g", "m", "e",
      "n", "t", " ">>

OutOfRangeText ==
    <<"I", "n", "d", "e", "x", " ", "o", "u", "t", " ", "o", "f", " ", "r",
      "a", "n", "g", "e", " ", "a", "t", " ", "s", "e", "g", "m", "e", "n",
      "t", " ">>

PathNotFoundText ==
    <<"P", "a", "t", "h", " ", "n", "o", "t", " ", "f", "o", "u", "n", "d",
      " ", "a", "t", " ", "s", "e", "g", "m", "e", "n", "t", " ">>

SeeAvailableText ==
    <<",", " ", "s", "e", "e", " ", "a", "v", "a", "i", "l", "a", "b", "l",
      "e", " ", "f", "i", "e", "l", "d", "s">>

CannotDescendText ==
    <<"C", "a", "n", "n", "o", "t", " ", "d", "e", "s", "c", "e", "n", "d",
      " ", "i", "n", "t", "o", " ", "<", "c", "l", "a", "s", "s", " ">>

AtSegmentText ==
    <<">", " ", "a", "t", " ", "s", "e", "g", "m", "e", "n", "t", " ">>

\* type(cur).__name__ of a scalar
TypeName(cur) ==
    CASE cur.t = "null" -> <<"N", "o", "n", "e", "T", "y", "p", "e">>
      [] cur.t = "bool" -> <<"b", "o", "o", "l">>
      [] cur.t = "num" -> <<"i", "n", "t">>
      [] cur.t = "str" -> <<"s", "t", "r">>

PathNotFound(p, path) ==
    PathNotFoundText \o Quoted(p) \o <<" ", "i", "n", " ">> \o Quoted(path) \o SeeAvailableText

IndexOutOfRange_Lax(idx, cur) == idx < 0 \/ idx > Len(cur.v)

\* if idx < 0 or idx >= len(cur)
IndexOutOfRange(idx, cur) == idx < 0 \/ idx >= Len(cur.v)

\* int(p[1:-1]) for "[...]", int(p) otherwise
IndexOf(p) ==
    IF StartsWith(p, <<"[">>) /\ EndsWith(p, <<"]">>)
    THEN ParseInt(SubSeq(p, 2, Len(p) - 1))
    ELSE ParseInt(p)

RECURSIVE ResolveFrom(_, _, _)

\* cur = cur[idx]: IndexError beyond the list
ListStep(cur, idx, rest, path) ==
    IF idx >= Len(cur.v) \/ idx < 0 - Len(cur.v) THEN ResolveRaised(<<"I", "n", "d", "e", "x", "E", "r", "r", "o", "r">>)
    ELSE ResolveFrom(cur.v[IF idx >= 0 THEN idx + 1 ELSE Len(cur.v) + idx + 1], rest, path)

InList(cur, p, rest, path, idx) ==
    IF ~idx.ok THEN ResolveFailed(ExpectedIndexText \o Quoted(p), cur)
    ELSE IF IndexOutOfRange(idx.val, cur) THEN ResolveFailed(OutOfRangeText \o Quoted(p), cur)
    ELSE ListStep(cur, idx.val, rest, path)

InDict(cur, p, rest, path) ==
    IF StartsWith(p, <<"[">>) /\ EndsWith(p, <<"]">>) THEN ResolveFailed(PathNotFound(p, path), cur)
    ELSE IF ~Has(cur, p) THEN ResolveFailed(PathNotFound(p, path), cur)
    ELSE ResolveFrom(cur.v[p], rest, path)

\* the loop "for p in parts" from cur on
ResolveFrom(cur, parts, path) ==
    IF parts = <<>> THEN Resolution(TRUE, cur, NoError, <<>>)
    ELSE IF IsList(cur) THEN InList(cur, Head(parts), Tail(parts), path, IndexOf(Head(parts)))
    ELSE IF IsDict(cur) THEN InDict(cur, Head(parts), Tail(parts), path)
    ELSE Resolution(FALSE, JNull,
                    CannotDescendText \o Quoted(TypeName(cur)) \o AtSegmentText
                        \o Quoted(Head(parts)),
                    <<>>)

\* GtsPathResolver(gts_id, content).resolve(path)
resolve(content, path) == ResolveFrom(content, _parts(path), path)

-----------------------------------------------------------------------------
(* Paths over a document with nested objects and lists, a list, a scalar    *)
(* and the empty object.                                                    *)

K_a == <<"a">>

K_b == <<"b">>

PathDocument ==
    JObj((K_a :> JObj((K_b :> JNum(1)) @@ (K_n :> JNull)))
             @@ (K_items :> JArr(<<JObj((K_a :> JStr(<<"s">>))), JArr(<<JBool(TRUE)>>),
                                   JNum(2)>>))
             @@ (<<"0">> :> JStr(<<"z">>)))

PathContents ==
    {PathDocument, JArr(<<JObj((K_a :> JNum(1))), JStr(<<"s">>)>>), JStr(<<"s">>),
     JObj(EmptyDict)}

\* keys, indices in both notations, in and out of range, negative and not
\* numeric, and a bracket that is not closed
PathSegments ==
    {K_a, K_b, K_items, <<"0">>, <<"1">>, <<"3">>, <<"-", "1">>, <<"[", "0", "]">>,
     <<"[", "1", "]">>, <<"[", "3", "]">>, <<"[", "x", "]">>, <<"[", "0">>}

PathSeparators == {<<".">>, <<"/">>, <<>>}

PathsOfLen(n) ==
    {Join(segs, sep) : segs \in [1..n -> PathSegments], sep \in PathSeparators}

Paths == UNION {PathsOfLen(n) : n \in 0..MaxPathLen}

InitPath == by_id = <<>> /\ reader = <<>> /\ call = NoCall /\ ret = NoRet

Resolve(content, path) ==
    /\ call' = [op |-> "resolve", content |-> content, path |-> path]
    /\ ret' = resolve(content, path)
    /\ UNCHANGED <<by_id, reader>>

NextPath ==
    /\ call = NoCall
    /\ \E content \in PathContents, path \in Paths : Resolve(content, path)

SpecPath == InitPath /\ [][NextPath]_vars

\* the token p leads from cur to a child: an index within a list, or a key
\* of an object
C13_Leads(cur, p) ==
    \/ /\ IsList(cur)
       /\ IndexOf(p).ok
       /\ IndexOf(p).val >= 0 /\ IndexOf(p).val < Len(cur.v)
    \/ /\ IsDict(cur)
       /\ ~(StartsWith(p, <<"[">>) /\ EndsWith(p, <<"]">>))
       /\ Has(cur, p)

C13_Child(cur, p) == IF IsList(cur) THEN cur.v[IndexOf(p).val + 1] ELSE cur.v[p]

RECURSIVE C13_Reach(_, _)

\* the node reached by consuming every token, or the first token that fails
C13_Reach(cur, parts) ==
    IF parts = <<>> THEN [ok |-> TRUE, node |-> cur, failed |-> <<>>]
    ELSE IF C13_Leads(cur, Head(parts))
         THEN C13_Reach(C13_Child(cur, Head(parts)), Tail(parts))
    ELSE [ok |-> FALSE, node |-> JNull, failed |-> Head(parts)]

C13_Outcome(r) ==
    IF r.ok
    THEN ret.resolved /\ ret.error = NoError /\ ret.value = r.node
    ELSE /\ ~ret.resolved
         /\ ret.error # NoError
         /\ ret.value = JNull
         /\ IsSub(Quoted(r.failed), ret.error)

\* C13: resolve raises nothing and ends either resolved, without error and
\* with the node that all the tokens of the path lead to as value, or not
\* resolved, with an error naming the first token that fails and without
\* value; the empty path resolves to the content.
C13_ResolveOutcomes ==
    call.op = "resolve" =>
        /\ ~ret.raised
        /\ C13_Outcome(C13_Reach(call.content, _parts(call.path)))
        /\ call.path = <<>> => (ret.resolved /\ ret.value = call.content)

\* items[3] in the document: "items" is consumed, "[3]" is out of range
C13_Witness ==
    /\ call.op = "resolve"
    /\ call.content = PathDocument
    /\ call.path = K_items \o <<"[", "3", "]">>
    /\ ~ret.resolved
    /\ ret.error = OutOfRangeText \o Quoted(<<"[", "3", "]">>)
    /\ ret.available_fields # <<>>

-----------------------------------------------------------------------------
(* store.py: the registry over a sequence of calls.  register and get are *)
(* applied in any order to one store; the reader is external and may gain *)
(* entities after the store was built from it.                            *)

\* a second entity under the identifier of AnInstance
Revised == GtsEntity(JObj((K_x :> JNum(2))), GtsID(InstanceId), FALSE, TypeV10)

\* a third one, whose identifier was written as a gts:// URI
Relabelled == GtsEntity(JObj((K_x :> JNum(3))), GtsID(GTS_URI_PREFIX \o InstanceId), FALSE, TypeV10)

RegistryEntities == {AnInstance, Revised, Relabelled, Orphan, Unidentified}

ReaderEntities == {Revised, Orphan}

RegistryIds == {InstanceId, OrphanId, BareId, GTS_URI_PREFIX \o InstanceId}

InitRegistry ==
    /\ reader \in {<<>>, <<Orphan>>}
    /\ by_id = GtsStore(reader)
    /\ call = NoCall
    /\ ret = NoRet

\* store.register(entity), with the outcome of the call
RegisterEntity(entity) ==
    /\ call' = [op |-> "register", entity |-> entity,
                present |-> HasValidGtsId(entity) /\ StoreHas(by_id, entity.gts_id.id)]
    /\ ret' = [ok |-> register(by_id, entity).ok, err |-> register(by_id, entity).err]
    /\ by_id' = register(by_id, entity).by_id
    /\ UNCHANGED reader

\* store.get(entity_id)
GetEntity(entity_id) ==
    /\ call' = [op |-> "get", id |-> entity_id, present |-> StoreHas(by_id, entity_id)]
    /\ ret' = [ok |-> TRUE, found |-> get(by_id, reader, entity_id).found,
               ent |-> get(by_id, reader, entity_id).ent,
               read |-> get(by_id, reader, entity_id).read]
    /\ by_id' = get(by_id, reader, entity_id).by_id
    /\ UNCHANGED reader

\* the source behind the reader gains an entity
Publish(entity) ==
    /\ Len(reader) < MaxEntities
    /\ reader' = Append(reader, entity)
    /\ call' = [op |-> "publish", entity |-> entity]
    /\ ret' = NoRet
    /\ UNCHANGED by_id

NextRegistry ==
    \/ \E entity \in RegistryEntities : RegisterEntity(entity)
    \/ \E entity_id \in RegistryIds : GetEntity(entity_id)
    \/ \E entity \in ReaderEntities : Publish(entity)

SpecRegistry == InitRegistry /\ [][NextRegistry]_vars

StoreKeys(d) == {d[i].key : i \in DOMAIN d}

C14_OnePerId(d) == \A i, j \in DOMAIN d : d[i].key = d[j].key => i = j

\* every entry of the registry before the step is still there, and holds
\* what it held unless the step registered an entity under its identifier
C14_OthersKept ==
    \A k \in StoreKeys(by_id) :
        /\ StoreHas(by_id', k)
        /\ StoreAt(by_id', k) # StoreAt(by_id, k)
               => call'.op = "register" /\ call'.entity.gts_id.id = k

C14_Registered(entity) ==
    /\ get(by_id', reader', entity.gts_id.id).found
    /\ get(by_id', reader', entity.gts_id.id).ent = entity
    /\ ~get(by_id', reader', entity.gts_id.id).read
    /\ Len(by_id') = Len(by_id) + (IF StoreHas(by_id, entity.gts_id.id) THEN 0 ELSE 1)

C14_Step ==
    /\ C14_OnePerId(by_id')
    /\ C14_OthersKept
    /\ (call'.op = "register" /\ ret'.ok) => C14_Registered(call'.entity)

\* C14: the registry holds at most one entity per identifier; a register
\* call makes get(id) return the entity just registered, adds an entry only
\* when the identifier was not present, and leaves every other entry as it
\* was; no other call changes an entry, so get(id) returns the entity most
\* recently registered under id
C14_RegisterReplaces == [][C14_Step]_vars

\* an entity was registered under an identifier that was present with
\* another entity, next to an entry under another identifier
C14_Witness ==
    /\ call.op = "register" /\ ret.ok /\ call.present
    /\ call.entity = Relabelled
    /\ Len(by_id) = 2
    /\ StoreAt(by_id, InstanceId) = Relabelled
    /\ StoreAt(by_id, OrphanId) = Orphan

\* what get(entity_id) did in the step: it went to the reader exactly when
\* the identifier was not in the registry
C15_ReadOnMiss == ret'.read <=> ~StoreHas(by_id, call'.id)

\* an entity that came from the reader is in the registry under the
\* identifier asked for, and the next get is answered without the reader
C15_Kept ==
    (ret'.read /\ ret'.found) =>
        /\ ReadIndex(reader, call'.id) # 0
        /\ ret'.ent = reader[ReadIndex(reader, call'.id)]
        /\ StoreHas(by_id', call'.id)
        /\ StoreAt(by_id', call'.id) = ret'.ent
        /\ get(by_id', reader', call'.id).found
        /\ get(by_id', reader', call'.id).ent = ret'.ent
        /\ ~get(by_id', reader', call'.id).read

\* None comes only after the reader found nothing, and leaves the registry
\* as it was; so does a get answered from the registry
C15_NotFound ==
    /\ ~ret'.found => (ret'.read /\ ReadIndex(reader, call'.id) = 0 /\ by_id' = by_id)
    /\ ~ret'.read => (ret'.found /\ ret'.ent = StoreAt(by_id, call'.id) /\ by_id' = by_id)

\* C15: get(id) calls the reader's read_by_id only when id is not in the
\* registry; an entity the reader returns is stored under id, so that the
\* next get(id) is answered from the registry without the reader; when the
\* reader finds nothing, get returns None and the registry is unchanged
C15_GetThroughReader ==
    [][call'.op = "get" => (C15_ReadOnMiss /\ C15_Kept /\ C15_NotFound)]_vars

\* get found in the reader an entity published after the store was built,
\* and the registry now holds it
C15_Witness ==
    /\ call.op = "get" /\ call.id = InstanceId /\ ~call.present
    /\ ret.read /\ ret.found /\ ret.ent = Revised
    /\ StoreHas(by_id, InstanceId) /\ StoreAt(by_id, InstanceId) = Revised

-----------------------------------------------------------------------------
(* entities.py: GtsEntity built from content and a GtsConfig.  None and   *)
(* "" are both the empty sequence where the code only asks for truth;     *)
(* list_sequence is <<>> for None and <<n>> for n.                        *)

K_dollar_id == <<"$", "i", "d">>

K_gtsId == <<"g", "t", "s", "I", "d">>

K_id == <<"i", "d">>

K_gtsTid == <<"g", "t", "s", "T", "i", "d">>

\* DEFAULT_GTS_CONFIG
DEFAULT_GTS_CONFIG ==
    [entity_id_fields |-> <<K_dollar_id, K_gtsId, <<"g", "t", "s", "I", "i", "d">>, <<"g", "t", "s", "O", "i", "d">>, <<"g", "t", "s", "I">>, <<"g", "t", "s", "_", "i", "d">>,
                            <<"g", "t", "s", "_", "o", "i", "d">>, <<"g", "t", "s", "_", "i", "i", "d">>, K_id>>,
     schema_id_fields |-> <<K_gtsTid, <<"g", "t", "s", "T", "y", "p", "e">>, <<"g", "t", "s", "T">>, <<"g", "t", "s", "_", "t">>, <<"g", "t", "s", "_", "t", "i", "d">>, <<"g", "t", "s", "_", "t", "y", "p", "e">>,
                            K_type, <<"s", "c", "h", "e", "m", "a">>>>]

NoFile == [some |-> FALSE, path |-> <<>>, name |-> <<>>]

GtsFile(path, name) == [some |-> TRUE, path |-> path, name |-> name]

\* the string a field of the content yields: nothing for a value that is no
\* string or only whitespace, the rest for one that starts with gts://
_get_field_value(content, f) ==
    IF ~IsDict(content) THEN <<>>
    ELSE IF IsStr(DictGet(content, f, JNull)) /\ Strip(DictGet(content, f, JNull).v) # <<>>
         THEN (IF StartsWith(DictGet(content, f, JNull).v, GTS_URI_PREFIX)
               THEN SubSeq(DictGet(content, f, JNull).v, 7, Len(DictGet(content, f, JNull).v))
               ELSE DictGet(content, f, JNull).v)
    ELSE <<>>

NoCandidate == [some |-> FALSE, f |-> <<>>, v |-> <<>>]

\* one pass over the fields
RECURSIVE FirstField(_, _, _)
FirstField(content, fields, valid_only) ==
    IF fields = <<>> THEN NoCandidate
    ELSE IF /\ _get_field_value(content, Head(fields)) # <<>>
            /\ valid_only => is_valid(_get_field_value(content, Head(fields)))
         THEN [some |-> TRUE, f |-> Head(fields),
               v |-> _get_field_value(content, Head(fields))]
    ELSE FirstField(content, Tail(fields), valid_only)

_first_non_empty_field_OnePass(content, fields) == FirstField(content, fields, FALSE)

_first_non_empty_field(content, fields) ==
    IF FirstField(content, fields, TRUE).some THEN FirstField(content, fields, TRUE)
    ELSE FirstField(content, fields, FALSE)

\* f"{self.file.path}#{self.list_sequence}", the path alone, or ""
FilePathId(file, list_sequence) ==
    IF file.some /\ list_sequence # <<>>
    THEN file.path \o <<"#">> \o IntStr(list_sequence[1])
    ELSE IF file.some THEN file.path ELSE <<>>

CalcEntityIdOf(cand, file, list_sequence) ==
    IF cand.some THEN [idv |-> cand.v, selected_entity_field |-> cand.f]
    ELSE [idv |-> FilePathId(file, list_sequence), selected_entity_field |-> <<>>]

_calc_json_entity_id(content, file, list_sequence, cfg) ==
    CalcEntityIdOf(_first_non_empty_field(content, cfg.entity_id_fields), file, list_sequence)

CalcSchemaIdOf(cand, ent, file, list_sequence) ==
    IF cand.some THEN [schemaId |-> cand.v, selected_schema_id_field |-> cand.f]
    ELSE IF ent.idv # <<>> /\ is_valid(ent.idv) /\ EndsWith(ent.idv, <<"~">>)
         THEN [schemaId |-> ent.idv, selected_schema_id_field |-> <<>>]
    ELSE IF ent.idv # <<>> /\ is_valid(ent.idv) /\ RFind(ent.idv, "~") > 1
         THEN [schemaId |-> SubSeq(ent.idv, 1, RFind(ent.idv, "~")),
               selected_schema_id_field |-> ent.selected_entity_field]
    ELSE [schemaId |-> FilePathId(file, list_sequence), selected_schema_id_field |-> <<>>]

_calc_json_schema_id(content, file, list_sequence, cfg) ==
    CalcSchemaIdOf(_first_non_empty_field(content, cfg.schema_id_fields),
                   _calc_json_entity_id(content, file, list_sequence, cfg),
                   file, list_sequence)

\* the identifier the entity is given: the entity id when it is valid, else
\* the schema id when that is valid, else none
EntityIdv(ent, sch) ==
    IF ent.idv # <<>> /\ is_valid(ent.idv) THEN ent.idv
    ELSE IF sch.schemaId # <<>> /\ is_valid(sch.schemaId) THEN sch.schemaId
    ELSE ent.idv

LabelOf(file, list_sequence, gts_id, label) ==
    IF file.some /\ list_sequence # <<>>
    THEN file.name \o <<"#">> \o IntStr(list_sequence[1])
    ELSE IF file.some THEN file.name
    ELSE IF gts_id.ok THEN gts_id.id
    ELSE label

ConfiguredGtsId(idv) == IF idv # <<>> /\ is_valid(idv) THEN GtsID(idv) ELSE NoGtsId

ConfiguredOf(file, list_sequence, content, is_schema, ent, sch) ==
    [gts_id |-> ConfiguredGtsId(EntityIdv(ent, sch)),
     is_schema |-> is_schema \/ (content # JNull /\ _is_json_schema_entity(content)),
     schemaId |-> sch.schemaId,
     content |-> content,
     idv |-> ent.idv,
     selected_entity_field |-> ent.selected_entity_field,
     selected_schema_id_field |-> sch.selected_schema_id_field,
     label |-> LabelOf(file, list_sequence, ConfiguredGtsId(EntityIdv(ent, sch)), <<>>)]

\* GtsEntity(file=..., list_sequence=..., content=..., cfg=..., is_schema=...);
\* idv is the value _calc_json_entity_id returned
GtsEntity_cfg(file, list_sequence, content, cfg, is_schema) ==
    ConfiguredOf(file, list_sequence, content, is_schema,
                 _calc_json_entity_id(content, file, list_sequence, cfg),
                 _calc_json_schema_id(content, file, list_sequence, cfg))

\* a field the content does not have
Absent == [t |-> "absent", v |-> <<>>]

\* the dict of the fields of f that are present
ContentOf(f) == JObj([k \in {x \in DOMAIN f : f[x] # Absent} |-> f[k]])

\* strings an identifier field may hold: a type identifier, an instance
\* identifier written as a URI, a word, a blank, the URI prefix alone
IdTexts == {JStr(TypeV10), JStr(GTS_URI_PREFIX \o InstanceId), JStr(W_active), JStr(<<" ">>), JStr(GTS_URI_PREFIX)}

IdValues == {Absent, JNum(1)} \cup IdTexts

TypeValues == {Absent, JStr(W_object), JStr(TypeV11)}

Draft07 == HttpJsonSchemaOrg \o <<"d", "r", "a", "f", "t", "-", "0", "7", "/", "s", "c", "h", "e", "m", "a", "#">>

Draft2020 == HttpsJsonSchemaOrg \o <<"d", "r", "a", "f", "t", "/", "2", "0", "2", "0", "-", "1", "2", "/", "s", "c", "h", "e", "m", "a">>

\* "$schema" values: the two json-schema.org forms, a GTS identifier bare
\* and as a URI, the http URL in upper case, the host without the slash,
\* and a value that is no string
SchemaValues ==
    {JStr(Draft07), JStr(Draft2020), JStr(TypeV10), JStr(GTS_URI_PREFIX \o TypeV10),
     JStr(<<"H", "T", "T", "P", ":", "/", "/", "J", "S", "O", "N", "-", "S", "C", "H", "E", "M", "A", ".", "O", "R", "G", "/">>), JStr(<<"h", "t", "t", "p", ":", "/", "/", "j", "s", "o", "n", "-", "s", "c", "h", "e", "m", "a", ".", "o", "r", "g">>), JBool(TRUE)}

IdentifiedContents ==
    {ContentOf((K_dollar_id :> a) @@ (K_gtsId :> b) @@ (K_id :> c) @@ (K_type :> t)) :
        a \in IdValues, b \in {Absent, JStr(W_active), JStr(<<" ">>), JStr(InstanceId)},
        c \in IdValues, t \in TypeValues}

TaggedContents ==
    {ContentOf((K_schema :> s) @@ (K_dollar_id :> a) @@ (K_type :> t)) :
        s \in SchemaValues, a \in {Absent, JStr(TypeV10)}, t \in {Absent, JStr(W_object)}}

EntityContents ==
    IdentifiedContents \cup TaggedContents
        \cup {JNull, JStr(Draft07), JArr(<<JStr(Draft07)>>), JNum(1)}

K_path == <<"/", "d", "/", "f", ".", "j", "s", "o", "n">>

K_fname == <<"f", ".", "j", "s", "o", "n">>

EntityFiles == {NoFile, GtsFile(K_path, K_fname)}

EntitySequences == {<<>>, <<0>>}

InitEntity == by_id = <<>> /\ reader = <<>> /\ call = NoCall /\ ret = NoRet

\* JsonEntity(file=..., list_sequence=..., content=..., cfg=DEFAULT_GTS_CONFIG)
Construct(file, list_sequence, content, is_schema) ==
    /\ call' = [op |-> "entity_cfg", file |-> file, list_sequence |-> list_sequence,
                content |-> content, is_schema |-> is_schema]
    /\ ret' = GtsEntity_cfg(file, list_sequence, content, DEFAULT_GTS_CONFIG, is_schema)
    /\ UNCHANGED <<by_id, reader>>

\* JsonEntity(content=..., gts_id=...)
ConstructPlain(content, gts_id, is_schema) ==
    /\ call' = [op |-> "entity", content |-> content, is_schema |-> is_schema]
    /\ ret' = GtsEntity(content, gts_id, is_schema, <<>>)
    /\ UNCHANGED <<by_id, reader>>

NextEntity ==
    \/ /\ call = NoCall
       /\ \E file \in EntityFiles, list_sequence \in EntitySequences,
             content \in EntityContents, is_schema \in BOOLEAN :
              Construct(file, list_sequence, content, is_schema)
    \/ /\ call = NoCall
       /\ \E content \in TaggedContents \cup {JNull}, gts_id \in {NoGtsId, GtsID(TypeV10)},
             is_schema \in BOOLEAN :
              ConstructPlain(content, gts_id, is_schema)

SpecEntity == InitEntity /\ [][NextEntity]_vars

C16_StartsWithOneOf(s, prefixes) ==
    \E p \in prefixes : \E n \in 0..Len(s) : SubSeq(s, 1, n) = p

C16_Expected(content) ==
    /\ content.t = "obj"
    /\ K_schema \in DOMAIN content.v
    /\ content.v[K_schema].t = "str"
    /\ C16_StartsWithOneOf(content.v[K_schema].v, {HttpJsonSchemaOrg, HttpsJsonSchemaOrg})

C16_GtsTagged(content) ==
    /\ content.t = "obj"
    /\ K_schema \in DOMAIN content.v
    /\ content.v[K_schema].t = "str"
    /\ C16_StartsWithOneOf(content.v[K_schema].v, {GTS_PREFIX, GTS_URI_PREFIX})

C16_WitnessSchema ==
    /\ call.op = "entity_cfg" /\ ~call.is_schema
    /\ call.content.t = "obj" /\ K_schema \in DOMAIN call.content.v
    /\ call.content.v[K_schema] = JStr(Draft2020)
    /\ ret.is_schema

C17_IsText(content, f) ==
    content.t = "obj" /\ f \in DOMAIN content.v /\ content.v[f].t = "str"

\* the field holds a string that is a valid GTS identifier
C17_Valid(content, f) == C17_IsText(content, f) /\ is_valid(content.v[f].v)

\* the field holds a string that is not ""
C17_NonEmpty(content, f) == C17_IsText(content, f) /\ content.v[f].v # <<>>

\* the field holds a string with something other than whitespace in it,
\* and something after a leading gts://
C17_NonBlank(content, f) ==
    /\ C17_IsText(content, f)
    /\ \E i \in DOMAIN content.v[f].v : content.v[f].v[i] # " "
    /\ content.v[f].v # GTS_URI_PREFIX

C17_Fields == DEFAULT_GTS_CONFIG.entity_id_fields

C17_FirstValid(content) ==
    CHOOSE i \in DOMAIN C17_Fields :
        /\ C17_Valid(content, C17_Fields[i])
        /\ \A j \in 1..(i - 1) : ~C17_Valid(content, C17_Fields[j])

C17_FirstNonEmpty(content) ==
    CHOOSE i \in DOMAIN C17_Fields :
        /\ C17_NonEmpty(content, C17_Fields[i])
        /\ \A j \in 1..(i - 1) : ~C17_NonEmpty(content, C17_Fields[j])

C17_FirstNonBlank(content) ==
    CHOOSE i \in DOMAIN C17_Fields :
        /\ C17_NonBlank(content, C17_Fields[i])
        /\ \A j \in 1..(i - 1) : ~C17_NonBlank(content, C17_Fields[j])

\* the value of a field as the derivation returns it
C17_Value(content, f) ==
    IF SubSeq(content.v[f].v, 1, 6) = GTS_URI_PREFIX
    THEN SubSeq(content.v[f].v, 7, Len(content.v[f].v))
    ELSE content.v[f].v

C17_Selected(content, i) ==
    /\ ret.selected_entity_field = C17_Fields[i]
    /\ ret.idv = C17_Value(content, C17_Fields[i])

C17_FromFile ==
    /\ ret.selected_entity_field = <<>>
    /\ ret.idv = (IF ~call.file.some THEN <<>>
                  ELSE IF call.list_sequence = <<>> THEN call.file.path
                  ELSE call.file.path \o <<"#">> \o NatStr(call.list_sequence[1]))

C17_WitnessBlank ==
    /\ call.op = "entity_cfg"
    /\ call.content.t = "obj"
    /\ C17_NonEmpty(call.content, K_id) /\ ~C17_NonBlank(call.content, K_id)
    /\ \A i \in DOMAIN C17_Fields : ~C17_NonBlank(call.content, C17_Fields[i])
    /\ call.file.some /\ call.list_sequence = <<0>>
    /\ ret.idv = K_path \o <<"#", "0">>

-----------------------------------------------------------------------------
(* x_gts_ref.py: XGtsRefValidator.validate_instance.  An error is the     *)
(* record of the fields of XGtsRefValidationError; the walk carries the   *)
(* errors found so far, the registry (store.get may fill it from the      *)
(* reader) and whether an exception left the walk.                        *)

K_x_gts_ref == <<"x", "-", "g", "t", "s", "-", "r", "e", "f">>

GtsAny == GTS_PREFIX \o <<"*">>

XGtsRefValidationError(field_path, value, ref_pattern, reason) ==
    [some |-> TRUE, field_path |-> field_path, value |-> value,
     ref_pattern |-> ref_pattern, reason |-> reason]

NoRefError == [some |-> FALSE]

ValueText ==
    <<"V", "a", "l", "u", "e", " ">>

NotValidIdText ==
    <<" ", "i", "s", " ", "n", "o", "t", " ", "a", " ", "v", "a", "l", "i",
      "d", " ", "G", "T", "S", " ", "i", "d", "e", "n", "t", "i", "f", "i",
      "e", "r">>

NoMatchText ==
    <<" ", "d", "o", "e", "s", " ", "n", "o", "t", " ", "m", "a", "t", "c",
      "h", " ", "p", "a", "t", "t", "e", "r", "n", " ">>

ReferencedText ==
    <<"R", "e", "f", "e", "r", "e", "n", "c", "e", "d", " ", "e", "n", "t",
      "i", "t", "y", " ">>

NotInRegistryText ==
    <<" ", "n", "o", "t", " ", "f", "o", "u", "n", "d", " ", "i", "n", " ",
      "r", "e", "g", "i", "s", "t", "r", "y">>

CannotResolveText ==
    <<"C", "a", "n", "n", "o", "t", " ", "r", "e", "s", "o", "l", "v", "e",
      " ", "r", "e", "f", "e", "r", "e", "n", "c", "e", " ", "p", "a", "t",
      "h", " ">>

ResolvedText ==
    <<"R", "e", "s", "o", "l", "v", "e", "d", " ", "r", "e", "f", "e", "r",
      "e", "n", "c", "e", " ">>

NotPatternText ==
    <<" ", "i", "s", " ", "n", "o", "t", " ", "a", " ", "G", "T", "S", " ",
      "p", "a", "t", "t", "e", "r", "n">>

\* whether the value matches the pattern, lines 290-308
PatternMatches(value, pattern) ==
    IF pattern = GtsAny THEN TRUE
    ELSE IF EndsWith(pattern, <<"*">>)
         THEN StartsWith(value, SubSeq(pattern, 1, Len(pattern) - 1))
    ELSE StartsWith(value, pattern)

PatternMatches_Exact(value, pattern) ==
    IF pattern = GtsAny THEN TRUE
    ELSE IF EndsWith(pattern, <<"*">>)
         THEN StartsWith(value, SubSeq(pattern, 1, Len(pattern) - 1))
    ELSE value = pattern

\* the error of _validate_gts_pattern and the registry after it; store is
\* FALSE for a validator built without one
_validate_gts_pattern(value, pattern, field_path, store, d, rd) ==
    IF ~is_valid(value)
    THEN [error |-> XGtsRefValidationError(field_path, value, pattern,
                        ValueText \o Quoted(value) \o NotValidIdText),
          by_id |-> d]
    ELSE IF ~PatternMatches(value, pattern)
         THEN [error |-> XGtsRefValidationError(field_path, value, pattern,
                             ValueText \o Quoted(value) \o NoMatchText \o Quoted(pattern)),
               by_id |-> d]
    ELSE IF store /\ ~get(d, rd, value).found
         THEN [error |-> XGtsRefValidationError(field_path, value, pattern,
                             ReferencedText \o Quoted(value) \o NotInRegistryText),
               by_id |-> get(d, rd, value).by_id]
    ELSE [error |-> NoRefError, by_id |-> IF store THEN get(d, rd, value).by_id ELSE d]

RECURSIVE LStripChar(_, _)
LStripChar(s, c) == IF s # <<>> /\ Head(s) = c THEN LStripChar(Tail(s), c) ELSE s

\* value.startswith(GTS_URI_PREFIX) removed
_normalize_gts_value(value) == StripUriPrefix(value)

\* the walk of _resolve_pointer over the parts; JNull for None
RECURSIVE PointerWalk(_, _)
PointerWalk(current, parts) ==
    IF parts = <<>> THEN current
    ELSE IF ~IsDict(current) THEN JNull
    ELSE IF DictGet(current, Head(parts), JNull) = JNull THEN JNull
    ELSE PointerWalk(DictGet(current, Head(parts), JNull), Tail(parts))

PointerTarget(schema, pointer) ==
    IF LStripChar(pointer, "/") = <<>> THEN JNull
    ELSE PointerWalk(schema, Split(LStripChar(pointer, "/"), "/"))

NoneResolved == [kind |-> "none", v |-> <<>>]

StrResolved(v) == [kind |-> "str", v |-> v]

\* the recursion did not end
RaisedResolved == [kind |-> "raise", v |-> RecursionError]

RECURSIVE ResolveTarget(_, _, _)
ResolveTarget(schema, current, depth) ==
    IF IsStr(current) THEN StrResolved(_normalize_gts_value(current.v))
    ELSE IF IsDict(current) /\ Has(current, K_x_gts_ref) /\ IsStr(current.v[K_x_gts_ref])
         THEN (IF ~StartsWith(current.v[K_x_gts_ref].v, <<"/">>)
               THEN StrResolved(_normalize_gts_value(current.v[K_x_gts_ref].v))
               ELSE IF depth = 0 THEN RaisedResolved
               ELSE ResolveTarget(schema, PointerTarget(schema, current.v[K_x_gts_ref].v),
                                  depth - 1))
    ELSE NoneResolved

_resolve_pointer(schema, pointer) ==
    ResolveTarget(schema, PointerTarget(schema, pointer), MaxDepth)

RefValueOf(value, ref_pattern, field_path, resolved, store, d, rd) ==
    IF resolved.kind = "raise"
    THEN [error |-> NoRefError, by_id |-> d, raised |-> resolved.v]
    ELSE IF resolved.kind = "none"
         THEN [error |-> XGtsRefValidationError(field_path, value, ref_pattern,
                             CannotResolveText \o Quoted(ref_pattern)),
               by_id |-> d, raised |-> <<>>]
    ELSE IF ~StartsWith(resolved.v, GTS_PREFIX)
         THEN [error |-> XGtsRefValidationError(field_path, value, ref_pattern,
                             ResolvedText \o Quoted(ref_pattern) \o <<" ", "-", ">", " ">>
                                 \o Quoted(resolved.v) \o NotPatternText),
               by_id |-> d, raised |-> <<>>]
    ELSE _validate_gts_pattern(value, resolved.v, field_path, store, d, rd)
             @@ [raised |-> <<>>]

_validate_ref_value(value, ref_pattern, field_path, schema, store, d, rd) ==
    IF StartsWith(ref_pattern, <<"/">>)
    THEN RefValueOf(value, ref_pattern, field_path, _resolve_pointer(schema, ref_pattern),
                    store, d, rd)
    ELSE _validate_gts_pattern(value, ref_pattern, field_path, store, d, rd)
             @@ [raised |-> <<>>]

AttributeError ==
    <<"A", "t", "t", "r", "i", "b", "u", "t", "e", "E", "r", "r", "o", "r">>

NoRefErrors(d) == [errors |-> <<>>, by_id |-> d, raised |-> <<>>]

\* errors.append(error) when there is one
WithRefResult(acc, r) ==
    [errors |-> IF r.error.some THEN Append(acc.errors, r.error) ELSE acc.errors,
     by_id |-> r.by_id, raised |-> r.raised]

\* ref_pattern.startswith of a pattern that is no string
WithAttributeError(acc) == [acc EXCEPT !.raised = AttributeError]

AfterRef(inst, sch, path, root, store, rd, acc) ==
    IF ~(Has(sch, K_x_gts_ref) /\ IsStr(inst)) THEN acc
    ELSE IF ~IsStr(sch.v[K_x_gts_ref]) THEN WithAttributeError(acc)
    ELSE WithRefResult(acc, _validate_ref_value(inst.v, sch.v[K_x_gts_ref].v, path, root,
                                                store, acc.by_id, rd))

RECURSIVE visit_instance(_, _, _, _, _, _, _)
RECURSIVE VisitProps(_, _, _, _, _, _, _, _)
RECURSIVE VisitItems(_, _, _, _, _, _, _, _)
\* the properties of the schema, in the order names, that the instance has
VisitProps(inst, props, names, path, root, store, rd, acc) ==
    IF names = <<>> \/ acc.raised # <<>> THEN acc
    ELSE IF ~Has(inst, Head(names))
         THEN VisitProps(inst, props, Tail(names), path, root, store, rd, acc)
    ELSE VisitProps(inst, props, Tail(names), path, root, store, rd,
                    visit_instance(inst.v[Head(names)], props.v[Head(names)],
                                   PathOf(path, Head(names)), root, store, rd, acc))

\* the items of the list from index idx (counted from 1) on
VisitItems(items, idx, sch, path, root, store, rd, acc) ==
    IF idx > Len(items) \/ acc.raised # <<>> THEN acc
    ELSE VisitItems(items, idx + 1, sch, path, root, store, rd,
                    visit_instance(items[idx], sch,
                                   path \o <<"[">> \o NatStr(idx - 1) \o <<"]">>,
                                   root, store, rd, acc))

AfterProps(inst, sch, path, root, store, rd, acc) ==
    IF acc.raised # <<>> THEN acc
    ELSE IF DictGet(sch, K_type, JNull) = JStr(W_object) /\ Has(sch, K_properties) /\ IsDict(inst)
         THEN VisitProps(inst, sch.v[K_properties], Sorted(DOMAIN sch.v[K_properties].v),
                         path, root, store, rd, acc)
    ELSE acc

AfterItems(inst, sch, path, root, store, rd, acc) ==
    IF acc.raised # <<>> THEN acc
    ELSE IF DictGet(sch, K_type, JNull) = JStr(W_array) /\ Has(sch, K_items) /\ IsList(inst)
         THEN VisitItems(inst.v, 1, sch.v[K_items], path, root, store, rd, acc)
    ELSE acc

visit_instance(inst, sch, path, root, store, rd, acc) ==
    IF ~IsDict(sch) \/ acc.raised # <<>> THEN acc
    ELSE AfterItems(inst, sch, path, root, store, rd,
                    AfterProps(inst, sch, path, root, store, rd,
                               AfterRef(inst, sch, path, root, store, rd, acc)))

\* XGtsRefValidator(store).validate_instance(instance, schema)
validate_instance(instance, schema, store, d, rd) ==
    visit_instance(instance, schema, <<>>, schema, store, rd, NoRefErrors(d))

K_loop == <<"l", "o", "o", "p">>

P_id == <<"/">> \o K_dollar_id

P_loop == <<"/">> \o K_loop

P_missing == <<"/">> \o K_name

\* gts.a.p.n.t.v1.0~ bare, with *, its vendor prefix with *, gts.*, and
\* three pointers: to "$id", to nothing, and to a node that points to itself
RefPatterns ==
    {TypeV10, TypeV10 \o <<"*">>, GTS_PREFIX \o <<"a", ".", "*">>, GtsAny, P_id, P_loop, P_missing}

RefValues == {TypeV10, InstanceId, TypeV11, W_active, GTS_URI_PREFIX \o TypeV10}

RefNode(pattern) == (K_type :> JStr(W_string)) @@ (K_x_gts_ref :> JStr(pattern))

\* what every schema of the pool has at its root
RefRoot ==
    (K_dollar_id :> JStr(GTS_URI_PREFIX \o TypeV10))
        @@ (K_loop :> JObj((K_x_gts_ref :> JStr(P_loop))))

RefCases ==
    {[instance |-> JStr(v), schema |-> JObj(RefNode(p) @@ RefRoot)] :
        v \in RefValues, p \in RefPatterns}
    \cup {[instance |-> JObj((K_x :> JStr(v))),
           schema |-> JObj((K_type :> JStr(W_object)) @@ RefRoot
                           @@ (K_properties :> JObj((K_x :> JObj(RefNode(p))))))] :
            v \in RefValues, p \in RefPatterns}
    \cup {[instance |-> JArr(<<JStr(v), JStr(InstanceId)>>),
           schema |-> JObj((K_type :> JStr(W_array)) @@ RefRoot
                           @@ (K_items :> JObj(RefNode(p))))] :
            v \in RefValues, p \in RefPatterns}
    \cup {[instance |-> JStr(TypeV10), schema |-> JObj((K_x_gts_ref :> JNum(1)))]}

InitRef == by_id = <<>> /\ reader = <<>> /\ call = NoCall /\ ret = NoRet

ValidateInstance(instance, schema, store) ==
    /\ call' = [op |-> "validate_refs", instance |-> instance, schema |-> schema,
                store |-> store]
    /\ ret' = [ok |-> validate_instance(instance, schema, store, by_id, reader).raised = <<>>,
               errors |-> validate_instance(instance, schema, store, by_id, reader).errors,
               raised |-> validate_instance(instance, schema, store, by_id, reader).raised]
    /\ by_id' = validate_instance(instance, schema, store, by_id, reader).by_id
    /\ UNCHANGED reader

NextRef ==
    \/ /\ call = NoCall
       /\ \E entity \in {BaseSchema, AnInstance} : Register(entity)
    \/ /\ call = NoCall
       /\ \E c \in RefCases, store \in BOOLEAN : ValidateInstance(c.instance, c.schema, store)

SpecRef == InitRef /\ [][NextRef]_vars

\* a string instance under a schema node whose x-gts-ref is a GTS pattern
C18_Applies ==
    /\ call.op = "validate_refs"
    /\ IsStr(call.instance)
    /\ IsStr(call.schema.v[K_x_gts_ref])
    /\ StartsWith(call.schema.v[K_x_gts_ref].v, GTS_PREFIX)

\* C18: a string value under x-gts-ref: P is accepted exactly when it is a
\* valid GTS identifier, equals P for a bare P (so a value of which a bare
\* P is a proper prefix is rejected), starts with P less its "*" for a P
\* ending in "*", whatever it is for P = gts.*, and is registered when the
\* validator has a registry
C18_ExactOrPrefix ==
    C18_Applies =>
        (ret.ok /\ ret.errors = <<>>)
            <=> /\ is_valid(call.instance.v)
                /\ PatternMatches_Exact(call.instance.v, call.schema.v[K_x_gts_ref].v)
                /\ call.store => StoreHas(by_id, call.instance.v)

-----------------------------------------------------------------------------
(* ops.py: GtsOps.  The outcome of an operation is what it returned, or   *)
(* the name of the exception that left it.                                *)

OpsReturned(payload) == [raised |-> "", payload |-> payload]

OpsRaised(exception) == [raised |-> exception, payload |-> <<>>]

\* str(uuid.uuid5(GTS_NS, id)): a function of the identifier, left
\* uninterpreted
UuidOf(id) == [uuid5 |-> id]

\* GtsOps.validate_id: the try block turns the exception into valid = False
ops_validate_id(gts_id) ==
    IF GtsID(gts_id).ok THEN OpsReturned([id |-> gts_id, valid |-> TRUE, error |-> <<>>])
    ELSE OpsReturned([id |-> gts_id, valid |-> FALSE, error |-> ExcStr(GtsID(gts_id))])

\* GtsOps.parse_id
ops_parse_id(gts_id) ==
    IF GtsID(gts_id).ok
    THEN OpsReturned([id |-> gts_id, ok |-> TRUE, segments |-> GtsID(gts_id).segs,
                      error |-> <<>>])
    ELSE OpsReturned([id |-> gts_id, ok |-> FALSE, segments |-> <<>>,
                      error |-> ExcStr(GtsID(gts_id))])

\* GtsOps.uuid: GtsID(gts_id) outside any try block
ops_uuid(gts_id) ==
    IF GtsID(gts_id).ok
    THEN OpsReturned([id |-> GtsID(gts_id).id, uuid |-> UuidOf(GtsID(gts_id).id)])
    ELSE OpsRaised(GtsID(gts_id).err)

\* GtsID.split_at_path: path is <<>> with some = FALSE for None
split_at_path(gts_with_path) ==
    IF ~Contains(gts_with_path, "@")
    THEN [raised |-> "", gts |-> gts_with_path, some |-> FALSE, path |-> <<>>]
    ELSE IF Find(gts_with_path, "@") = Len(gts_with_path)
         THEN [raised |-> "ValueError", gts |-> <<>>, some |-> FALSE, path |-> <<>>]
    ELSE [raised |-> "", gts |-> SubSeq(gts_with_path, 1, Find(gts_with_path, "@") - 1),
          some |-> TRUE,
          path |-> SubSeq(gts_with_path, Find(gts_with_path, "@") + 1, Len(gts_with_path))]

SelectorRequiredText ==
    <<"A", "t", "t", "r", "i", "b", "u", "t", "e", " ", "s", "e", "l", "e",
      "c", "t", "o", "r", " ", "r", "e", "q", "u", "i", "r", "e", "s", " ",
      "'", "@", "p", "a", "t", "h", "'", " ", "i", "n", " ", "t", "h", "e",
      " ", "i", "d", "e", "n", "t", "i", "f", "i", "e", "r">>

EntityNotFoundText ==
    <<"E", "n", "t", "i", "t", "y", " ", "n", "o", "t", " ", "f", "o", "u",
      "n", "d", ":", " ">>

\* JsonPathResolver(gts_id=..., content=None).failure(path, error)
ResolverFailure(path, error) ==
    [path |-> path] @@ Resolution(FALSE, JNull, error, <<>>)

\* entity.resolve_path(path)
resolve_path(entity, path) ==
    IF resolve(entity.content, path).raised
    THEN OpsRaised("IndexError")
    ELSE OpsReturned([path |-> path] @@ resolve(entity.content, path))

AttrOf(sp, d, rd) ==
    IF sp.raised # "" THEN OpsRaised(sp.raised) @@ [by_id |-> d]
    ELSE IF ~sp.some
         THEN OpsReturned(ResolverFailure(<<>>, SelectorRequiredText)) @@ [by_id |-> d]
    ELSE IF ~get(d, rd, sp.gts).found
         THEN OpsReturned(ResolverFailure(sp.path, EntityNotFoundText \o sp.gts))
                  @@ [by_id |-> get(d, rd, sp.gts).by_id]
    ELSE resolve_path(get(d, rd, sp.gts).ent, sp.path)
             @@ [by_id |-> get(d, rd, sp.gts).by_id]

\* GtsOps.attr
ops_attr(gts_with_path, d, rd) == AttrOf(split_at_path(gts_with_path), d, rd)

\* identifiers well formed, malformed, empty, padded and as a URI
OpsIds ==
    {TypeV10, InstanceId, OrphanId, W_active, <<>>, GTS_URI_PREFIX \o TypeV10,
     <<" ">> \o InstanceId, GTS_PREFIX}

\* what follows the identifier of an attribute selector
OpsSelectors ==
    {<<>>, <<"@">>, <<"@">> \o K_x, <<"@">> \o K_y, <<"@", "@">>, <<"@">> \o K_x \o <<"[", "0", "]">>}

InitOps == by_id = <<>> /\ reader = <<>> /\ call = NoCall /\ ret = NoRet

OpsValidateId(gts_id) ==
    /\ call' = [op |-> "validate_id", id |-> gts_id]
    /\ ret' = ops_validate_id(gts_id)
    /\ UNCHANGED <<by_id, reader>>

OpsParseId(gts_id) ==
    /\ call' = [op |-> "parse_id", id |-> gts_id]
    /\ ret' = ops_parse_id(gts_id)
    /\ UNCHANGED <<by_id, reader>>

OpsUuid(gts_id) ==
    /\ call' = [op |-> "uuid", id |-> gts_id]
    /\ ret' = ops_uuid(gts_id)
    /\ UNCHANGED <<by_id, reader>>

OpsAttr(gts_with_path) ==
    /\ call' = [op |-> "attr", id |-> gts_with_path]
    /\ ret' = [raised |-> ops_attr(gts_with_path, by_id, reader).raised,
               payload |-> ops_attr(gts_with_path, by_id, reader).payload]
    /\ by_id' = ops_attr(gts_with_path, by_id, reader).by_id
    /\ UNCHANGED reader

NextOps ==
    \/ /\ call = NoCall
       /\ \E entity \in {BaseSchema, AnInstance, Orphan} : Register(entity)
    \/ /\ call = NoCall
       /\ \E gts_id \in OpsIds : OpsValidateId(gts_id)
    \/ /\ call = NoCall
       /\ \E gts_id \in OpsIds : OpsParseId(gts_id)
    \/ /\ call = NoCall
       /\ \E gts_id \in OpsIds : OpsUuid(gts_id)
    \/ /\ call = NoCall
       /\ \E gts_id \in OpsIds, selector \in OpsSelectors : OpsAttr(gts_id \o selector)

SpecOps == InitOps /\ [][NextOps]_vars

\* C19: every operation of GtsOps returns a result, a payload or an error
\* text, for every input, malformed identifiers and an "@" with an empty
\* path included: no exception leaves it
C19_NoExceptionCrosses ==
    call.op \in {"validate_id", "parse_id", "uuid", "attr"} => ret.raised = ""

-----------------------------------------------------------------------------
(* store.py under two threads: one runs query, whose loop over            *)
(* self._by_id.values() is taken one turn at a time, the other registers  *)
(* an entity between two turns.  The store has no lock.  A dict iterator  *)
(* keeps the size the dict had when the loop began and raises             *)
(* RuntimeError from its next turn when the size is no longer that.       *)

\* Alice with other content, under the same identifier
AliceRevised ==
    InstanceOf(UserType, "x", JObj((K_status :> JStr(W_inactive)) @@ (K_name :> JStr(W_alice))))

ConcurrentEntities == {Alice, AliceRevised, Bob, AnOrder}

ConcurrentBases ==
    { CoreOf(<<Dotted(<<Tok("a"), Tok("p"), Tok("n"), Tok("*")>>)>>, FALSE),
      CoreOf(<<UserType, Tok("*")>>, FALSE),
      CoreOf(<<Dotted(<<Tok("a"), Tok("*"), Tok("n")>>)>>, FALSE) }

InitConcurrent == by_id = <<>> /\ reader = <<>> /\ call = NoCall /\ ret = NoRet

\* query up to the loop: the expression is parsed and the pattern checked;
\* the loop begins with an iterator over the dict as it is now
QueryLoopOf(d, expr, limit, base_pattern, v) ==
    [op |-> IF v.error # <<>> THEN "query" ELSE "query_loop",
     expr |-> expr, limit |-> limit, base_pattern |-> base_pattern, v |-> v,
     filters |-> _parse_query_filters(<<>>),
     pos |-> 0, used |-> Len(d), before |-> d, after |-> d, written |-> FALSE]

QueryBegin(expr, limit) ==
    /\ call' = QueryLoopOf(by_id, expr, limit, Strip(expr),
                           _validate_query_pattern(Strip(expr), Contains(Strip(expr), "*")))
    /\ ret' = [raised |-> "", done |-> call'.v.error # <<>>, error |-> call'.v.error,
               results |-> <<>>]
    /\ UNCHANGED <<by_id, reader>>

\* the entity of this turn is appended when it matches
TurnResults(entity) ==
    IF EntityMatches(entity, call.base_pattern, Contains(call.base_pattern, "*"), call.v,
                     call.filters)
    THEN Append(ret.results, entity.content)
    ELSE ret.results

\* one turn of the loop of lines 609-626
QueryTurn ==
    /\ call.op = "query_loop"
    /\ ~ret.done
    /\ IF Len(by_id) # call.used
       THEN ret' = [ret EXCEPT !.raised = "RuntimeError", !.done = TRUE] /\ UNCHANGED call
       ELSE IF call.pos >= Len(by_id) \/ LimitReached(ret.results, call.limit)
            THEN ret' = [ret EXCEPT !.done = TRUE] /\ UNCHANGED call
       ELSE /\ ret' = [ret EXCEPT !.results = TurnResults(by_id[call.pos + 1].ent)]
            /\ call' = [call EXCEPT !.pos = call.pos + 1]
    /\ UNCHANGED <<by_id, reader>>

\* register in the other thread while the loop is running
RegisterDuring(entity) ==
    /\ call.op = "query_loop"
    /\ ~ret.done
    /\ ~call.written
    /\ by_id' = register(by_id, entity).by_id
    /\ call' = [call EXCEPT !.written = TRUE, !.after = register(by_id, entity).by_id]
    /\ UNCHANGED <<reader, ret>>

NextConcurrent ==
    \/ /\ call = NoCall
       /\ \E entity \in ConcurrentEntities : Register(entity)
    \/ /\ call = NoCall
       /\ \E expr \in ConcurrentBases, limit \in 1..MaxLimit : QueryBegin(expr, limit)
    \/ QueryTurn
    \/ \E entity \in ConcurrentEntities : RegisterDuring(entity)

SpecConcurrent == InitConcurrent /\ [][NextConcurrent]_vars

\* C20: a query that runs while another thread registers an entity ends
\* without failure, and returns what it would have returned on the registry
\* as it was before the write or as it is after it
C20_SafeUnderConcurrency ==
    (call.op = "query_loop" /\ ret.done) =>
        /\ ret.raised = ""
        /\ \/ ret.results = query(call.before, call.expr, call.limit).results
           \/ ret.results = query(call.after, call.expr, call.limit).results

-----------------------------------------------------------------------------
(* store.py: queries with a key=* filter over entities whose value under   *)
(* the key is a word, the word None, the empty string, a number, or absent *)

W_None == <<"N", "o", "n", "e">>

\* status is the string "None"
Carol == InstanceOf(UserType, "c", JObj((K_status :> JStr(W_None)) @@ (K_name :> JStr(W_alice))))

\* status is the empty string
Dave == InstanceOf(UserType, "d", JObj((K_status :> JStr(<<>>)) @@ (K_name :> JStr(W_bob))))

\* no status, and a number under n
Erin == InstanceOf(UserType, "e", JObj((K_n :> JNum(1))))

FilterEntities == {Alice, Carol, Dave, Erin}

StarFilter(key) == <<[key |-> key, value |-> <<"*">>, quote |-> <<>>]>>

FilterBase == CoreOf(<<Dotted(<<Tok("a"), Tok("p"), Tok("n"), Tok("*")>>)>>, FALSE)

InitFilter == by_id = <<>> /\ reader = <<>> /\ call = NoCall /\ ret = NoRet

NextFilter ==
    \/ /\ call = NoCall
       /\ \E entity \in FilterEntities : Register(entity)
    \/ /\ call = NoCall
       /\ \E key \in {K_status, K_name, K_n}, limit \in 1..MaxLimit :
              Query(FilterBase, StarFilter(key), limit)

SpecFilter == InitFilter /\ [][NextFilter]_vars

C21_Returned(content) == \E i \in DOMAIN ret.results : ret.results[i] = content

\* the value under the key is a string that is not empty
C21_NonEmptyString(content, key) ==
    key \in DOMAIN content.v /\ content.v[key].t = "str" /\ content.v[key].v # <<>>

\* the key is absent, or the value under it is the empty string
C21_AbsentOrEmpty(content, key) ==
    key \notin DOMAIN content.v \/ content.v[key] = JStr(<<>>)

\* C21: under a filter key=*, with a limit that cuts nothing off, every
\* registered entity whose content[key] is a non-empty string is returned,
\* whatever the string, and every one that lacks the key or holds the empty
\* string under it is not
C21_StarMatchesNonEmpty ==
    (call.op = "query" /\ ret.error = <<>> /\ call.limit >= Len(by_id)) =>
        \A i \in DOMAIN by_id :
            /\ C21_NonEmptyString(by_id[i].ent.content, call.filters[1].key)
                   => C21_Returned(by_id[i].ent.content)
            /\ C21_AbsentOrEmpty(by_id[i].ent.content, call.filters[1].key)
                   => ~C21_Returned(by_id[i].ent.content)

-----------------------------------------------------------------------------
(* The wildcard segment of a pattern, stated over one call of              *)
(* wildcard_match (SpecMatch).                                              *)

\* the loop reaches pattern segment w: the pattern is no longer than the
\* candidate and every segment before w agrees with the candidate's
C22_Reaches(ps, cs, w) ==
    /\ w \in DOMAIN ps
    /\ Len(ps) <= Len(cs)
    /\ ps[w].is_wildcard
    /\ \A i \in 1..(w - 1) : ~ps[i].is_wildcard /\ SegmentAgrees(ps[i], cs[i])

\* the fields a wildcard segment sets (non-empty, non-zero, non-null) agree
\* with the candidate's segment
C22_SetFieldsAgree(p_seg, c_seg) ==
    /\ p_seg.vendor = <<>> \/ p_seg.vendor = c_seg.vendor
    /\ p_seg.package = <<>> \/ p_seg.package = c_seg.package
    /\ p_seg.namespace = <<>> \/ p_seg.namespace = c_seg.namespace
    /\ p_seg.type = <<>> \/ p_seg.type = c_seg.type
    /\ p_seg.ver_major = 0 \/ p_seg.ver_major = c_seg.ver_major
    /\ p_seg.ver_minor = NoMinor \/ p_seg.ver_minor = c_seg.ver_minor
    /\ ~p_seg.is_type \/ c_seg.is_type

C22_WitnessDisagree ==
    /\ call.op = "wildcard_match"
    /\ Len(call.pattern.segs) = 1
    /\ call.pattern.segs[1].is_wildcard
    /\ call.pattern.segs[1].vendor = Tok("a")
    /\ call.candidate.segs[1].vendor = Tok("b")
    /\ ~ret.match

\* the wildcard segment gives a major version before its '*': it has the four
\* name tokens and a version token
C29_FixesMajor(p_seg) == p_seg.is_wildcard /\ Count(p_seg.segment, ".") >= 5

-----------------------------------------------------------------------------
(* store.py: the keys of the registry.  register_schema joins register,   *)
(* get and the reader of SpecRegistry on one store.                        *)

\* the registry after register_schema(type_id, schema), and what was raised
register_schema(d, type_id, schema) ==
    IF ~EndsWith(type_id, <<"~">>)
    THEN [ok |-> FALSE, err |-> "ValueError", by_id |-> d]
    ELSE IF ~GtsID(type_id).ok
         THEN [ok |-> FALSE, err |-> "GtsInvalidId", by_id |-> d]
    ELSE [ok |-> TRUE, err |-> "",
          by_id |-> StorePut(d, type_id, GtsEntity(schema, GtsID(type_id), TRUE, <<>>))]

\* type identifiers as a caller writes them: bare, as a gts:// URI, after a
\* blank, without the final '~', and one that is no identifier
SchemaTypeIds ==
    {TypeV10, GTS_URI_PREFIX \o TypeV10, <<" ">> \o TypeV10, InstanceId, <<"x", "~">>}

SchemaContents == {JObj(EmptyDict)}

\* register_schema is taken while the registry has fewer entries than this
MaxKeys == 2

\* store.register_schema(type_id, schema), with the outcome of the call
RegisterSchema(type_id, schema) ==
    /\ Len(by_id) < MaxKeys
    /\ call' = [op |-> "register_schema", type_id |-> type_id, schema |-> schema,
                present |-> StoreHas(by_id, type_id)]
    /\ ret' = [ok |-> register_schema(by_id, type_id, schema).ok,
               err |-> register_schema(by_id, type_id, schema).err]
    /\ by_id' = register_schema(by_id, type_id, schema).by_id
    /\ UNCHANGED reader

NextKeys ==
    \/ \E entity \in RegistryEntities : RegisterEntity(entity)
    \/ \E entity_id \in RegistryIds : GetEntity(entity_id)
    \/ \E entity \in ReaderEntities : Publish(entity)
    \/ \E type_id \in SchemaTypeIds, schema \in SchemaContents : RegisterSchema(type_id, schema)

SpecKeys == InitRegistry /\ [][NextKeys]_vars

\* C23: every entry (k, e) of the registry has e.gts_id.id = k: an entity is
\* stored under its own normalized identifier only, after construction from
\* a reader and after any register, register_schema and get.
C23_KeyIsOwnId == \A i \in DOMAIN by_id : by_id[i].ent.gts_id.id = by_id[i].key

\* C27: resolving a '/'-rooted x-gts-ref pointer always ends with a value or
\* with not-found, also when the pointer leads to a node whose own x-gts-ref
\* is a pointer back to that node: validation never ends in the recursion
\* running out.
C27_PointerResolutionEnds ==
    call.op = "validate_refs" => ret.raised # RecursionError

-----------------------------------------------------------------------------
(* ops.py: add_entity.  The entity is built from the content with the      *)
(* default configuration, registered, and then validated by the store:     *)
(* store.validate_schema for a schema, store.validate_instance for an      *)
(* instance when validation was asked for.                                 *)

RECURSIVE RStripChar(_, _)
RStripChar(s, c) ==
    IF s # <<>> /\ s[Len(s)] = c THEN RStripChar(SubSeq(s, 1, Len(s) - 1), c) ELSE s

\* _validate_gts_id_or_pattern returns an error
GtsIdOrPatternError(pattern) ==
    IF pattern = GtsAny THEN FALSE
    ELSE IF Contains(pattern, "*") THEN ~StartsWith(RStripChar(pattern, "*"), GTS_PREFIX)
    ELSE ~is_valid(pattern)

\* what _validate_ref_pattern found for a pointer: "raise" when the
\* resolution did not end, "error" for a pointer to nothing or to something
\* that is no identifier, "" for None
PointerOutcome(resolved) ==
    IF resolved.kind = "raise" THEN "raise"
    ELSE IF resolved.kind = "none" THEN "error"
    ELSE IF ~is_valid(resolved.v) THEN "error"
    ELSE ""

_validate_ref_pattern(ref_pattern, root_schema) ==
    IF ~IsStr(ref_pattern) THEN "error"
    ELSE IF StartsWith(ref_pattern.v, GTS_PREFIX)
         THEN (IF GtsIdOrPatternError(ref_pattern.v) THEN "error" ELSE "")
    ELSE IF StartsWith(ref_pattern.v, <<"/">>)
         THEN PointerOutcome(_resolve_pointer(root_schema, ref_pattern.v))
    ELSE "error"

\* XGtsRefValidator.validate_schema(schema) returns errors or raises: some
\* x-gts-ref of the schema, at the root or nested in dicts and in dicts of
\* lists, does not pass _validate_ref_pattern
RECURSIVE SchemaRefFails(_, _)
SchemaRefFails(sch, root_schema) ==
    /\ IsDict(sch)
    /\ \/ Has(sch, K_x_gts_ref) /\ _validate_ref_pattern(sch.v[K_x_gts_ref], root_schema) # ""
       \/ \E key \in DOMAIN sch.v \ {K_x_gts_ref} :
              \/ IsDict(sch.v[key]) /\ SchemaRefFails(sch.v[key], root_schema)
              \/ /\ IsList(sch.v[key])
                 /\ \E idx \in DOMAIN sch.v[key].v : SchemaRefFails(sch.v[key].v[idx], root_schema)

\* the names the meta-schema allows as "type"
SimpleTypes ==
    {W_object, W_string, W_integer, W_array, <<"n", "u", "m", "b", "e", "r">>,
     <<"b", "o", "o", "l", "e", "a", "n">>, <<"n", "u", "l", "l">>}

\* check_schema of jsonschema for a schema whose only validation keyword is
\* "type": a string that names a simple type
check_schema(schema) ==
    ~Has(schema, K_type) \/ (IsStr(schema.v[K_type]) /\ schema.v[K_type].v \in SimpleTypes)

\* js_validate(instance, schema) of jsonschema raises no ValidationError
js_validate(instance, schema) ==
    IF Has(schema, K_type) /\ IsStr(schema.v[K_type]) /\ ~TypeOk(instance, schema.v[K_type].v)
    THEN FALSE
    ELSE ValidationErrors(instance, schema) = {}

StoreRaised(exception, d) == [raised |-> exception, by_id |-> d]

\* store.validate_schema(gts_id) after schema_entity = self.get(gts_id)
ValidateSchemaOf(gts_id, g) ==
    IF ~g.found THEN StoreRaised("StoreGtsSchemaNotFound", g.by_id)
    ELSE IF ~g.ent.is_schema THEN StoreRaised("ValueError", g.by_id)
    ELSE IF ~IsDict(g.ent.content) THEN StoreRaised("ValueError", g.by_id)
    ELSE IF ~check_schema(g.ent.content) THEN StoreRaised("Exception", g.by_id)
    ELSE IF SchemaRefFails(g.ent.content, g.ent.content) THEN StoreRaised("Exception", g.by_id)
    ELSE StoreRaised("", g.by_id)

\* GtsStore.validate_schema
store_validate_schema(d, rd, gts_id) ==
    IF ~EndsWith(gts_id, <<"~">>) THEN StoreRaised("ValueError", d)
    ELSE ValidateSchemaOf(gts_id, get(d, rd, gts_id))

\* the x-gts-ref part of store.validate_instance
RefOutcome(r) ==
    IF r.raised # <<>> THEN StoreRaised("RecursionError", r.by_id)
    ELSE IF r.errors # <<>> THEN StoreRaised("Exception", r.by_id)
    ELSE StoreRaised("", r.by_id)

\* store.validate_instance after schema lookup: s is self.get(obj.schemaId)
ValidateAgainst(obj, s, rd) ==
    IF ~s.found \/ ~IsDict(s.ent.content) THEN StoreRaised("StoreGtsSchemaNotFound", s.by_id)
    ELSE IF ~check_schema(s.ent.content) THEN StoreRaised("SchemaError", s.by_id)
    ELSE IF ~js_validate(obj.content, s.ent.content)
         THEN StoreRaised("ValidationError", s.by_id)
    ELSE RefOutcome(validate_instance(obj.content, s.ent.content, TRUE, s.by_id, rd))

\* store.validate_instance after obj = self.get(gid.id)
ValidateInstanceOf(g, rd) ==
    IF ~g.found THEN StoreRaised("StoreGtsObjectNotFound", g.by_id)
    ELSE IF g.ent.schemaId = <<>> THEN StoreRaised("StoreGtsSchemaForInstanceNotFound", g.by_id)
    ELSE ValidateAgainst(g.ent, get(g.by_id, rd, g.ent.schemaId), rd)

\* GtsStore.validate_instance
store_validate_instance(d, rd, gts_id) ==
    IF ~GtsID(gts_id).ok THEN StoreRaised("GtsInvalidId", d)
    ELSE ValidateInstanceOf(get(d, rd, GtsID(gts_id).id), rd)

\* the fields of JsonEntity(content=content, cfg=cfg) the store reads
ConfiguredEntity(e) ==
    [gts_id |-> e.gts_id, is_schema |-> e.is_schema, schemaId |-> e.schemaId,
     content |-> e.content]

AddResult(ok, error, d) == [ok |-> ok, error |-> error, by_id |-> d]

\* the end of add_entity: r is what the validation raised
AfterValidation(r) ==
    IF r.raised # "" THEN AddResult(FALSE, "Validation failed", r.by_id)
    ELSE AddResult(TRUE, "", r.by_id)

\* add_entity after self.store.register(entity): d holds the entity
ValidateAdded(d, rd, entity, validate) ==
    IF entity.is_schema THEN AfterValidation(store_validate_schema(d, rd, entity.gts_id.id))
    ELSE IF validate THEN AfterValidation(store_validate_instance(d, rd, entity.gts_id.id))
    ELSE AddResult(TRUE, "", d)

AddEntityOf(d, rd, entity, validate) ==
    IF ~entity.gts_id.ok THEN AddResult(FALSE, "Unable to detect GTS ID in entity", d)
    ELSE ValidateAdded(register(d, entity).by_id, rd, entity, validate)

\* GtsOps.add_entity(content, validate)
add_entity(d, rd, content, validate) ==
    AddEntityOf(d, rd,
                ConfiguredEntity(GtsEntity_cfg(NoFile, <<>>, content, DEFAULT_GTS_CONFIG, FALSE)),
                validate)

\* a schema with a given "$id" and "type"
AddedSchema(id, type) ==
    JObj((K_schema :> JStr(Draft07)) @@ (K_dollar_id :> JStr(id)) @@ (K_type :> type))

\* contents added: the type gts.a.p.n.t.v1.0~ as a schema of objects, of
\* strings, with a "type" that is no type and with an x-gts-ref that is no
\* pattern; a schema under an instance identifier; an instance of the type;
\* a content without identifier
AddContents ==
    {AddedSchema(GTS_URI_PREFIX \o TypeV10, JStr(W_object)),
     AddedSchema(TypeV10, JStr(W_string)),
     AddedSchema(TypeV10, JNum(1)),
     JObj(AddedSchema(TypeV10, JStr(W_object)).v @@ (K_x_gts_ref :> JStr(W_active))),
     AddedSchema(InstanceId, JStr(W_object)),
     JObj((K_id :> JStr(InstanceId)) @@ (K_x :> JNum(1))),
     JObj((K_id :> JStr(W_active)))}

InitAdd == by_id = <<>> /\ reader = <<>> /\ call = NoCall /\ ret = NoRet

\* ops.add_entity(content, validate), with the result of the call
AddEntity(content, validate) ==
    /\ call' = [op |-> "add_entity", content |-> content, validate |-> validate,
                before |-> by_id]
    /\ ret' = [ok |-> add_entity(by_id, reader, content, validate).ok,
               error |-> add_entity(by_id, reader, content, validate).error]
    /\ by_id' = add_entity(by_id, reader, content, validate).by_id
    /\ UNCHANGED reader

NextAdd == \E content \in AddContents, validate \in BOOLEAN : AddEntity(content, validate)

SpecAdd == InitAdd /\ [][NextAdd]_vars

\* C24: add_entity is all-or-nothing: when it returns ok = false (no
\* identifier detected, schema validation failed, or the instance validation
\* asked for failed) the registry is exactly as it was before the call.
C24_AllOrNothing ==
    (call.op = "add_entity" /\ ~ret.ok) => by_id = call.before

\* the identifier has as many segments as the pattern and agrees with it
\* segment by segment, up to a minor version the pattern omits
C25_Exact(entity_id, pattern) ==
    /\ Len(entity_id.segs) = Len(pattern.segs)
    /\ \A i \in DOMAIN pattern.segs : SegmentAgrees(pattern.segs[i], entity_id.segs[i])

\* C25: a query whose base pattern is a complete identifier without '*'
\* returns only entities whose identifier has the pattern's number of
\* segments and equals it segment by segment up to omitted minor versions;
\* a query for a type T~ returns no instance chained under T~.
C25_ExactQueryExact ==
    (call.op = "query" /\ ret.error = <<>> /\ ~Contains(call.base, "*")) =>
        \A j \in DOMAIN by_id :
            (\E i \in DOMAIN ret.results : ret.results[i] = by_id[j].ent.content)
                => C25_Exact(by_id[j].ent.gts_id, GtsID(call.base))

-----------------------------------------------------------------------------
(* schema_cast.py: the two directions of the compatibility check on one    *)
(* pair of schemas.  The schemas have one property, "name", whose schema   *)
(* declares or omits "type", "minLength" and "maxLength".                  *)

DualProps ==
    {ContentOf((K_type :> t) @@ (K_minLength :> lo) @@ (K_maxLength :> hi)) :
        t \in {Absent, JStr(W_string), JStr(W_integer)},
        lo \in {Absent, JNum(1), JNum(2)},
        hi \in {Absent, JNum(5)}}

DualSchemas ==
    {JObj((K_type :> JStr(W_object)) @@ (K_properties :> JObj((K_pname :> p)))
              @@ (K_required :> JArr(JStrs(Sorted(required))))) :
        p \in DualProps, required \in SUBSET {K_pname}}

\* is_compatible of the tuple returned: the list of errors is empty
IsCompatible(outcomes) == \A errors \in outcomes : errors = {}

InitDual == by_id = <<>> /\ reader = <<>> /\ call = NoCall /\ ret = NoRet

\* _check_backward_compatibility(a, b) and _check_forward_compatibility(b, a)
CheckBothWays(a, b) ==
    /\ call' = [op |-> "compatibility", a |-> a, b |-> b]
    /\ ret' = [ok |-> TRUE,
               backward |-> IsCompatible(_check_backward_compatibility(a, b)),
               forward |-> IsCompatible(_check_forward_compatibility(b, a))]
    /\ UNCHANGED <<by_id, reader>>

NextDual ==
    /\ call = NoCall
    /\ \E a \in DualSchemas, b \in DualSchemas : CheckBothWays(a, b)

SpecDual == InitDual /\ [][NextDual]_vars

\* C26: backward and forward compatibility are duals: for schemas A and B,
\* _check_backward_compatibility(A, B) reports compatible iff
\* _check_forward_compatibility(B, A) does, also when the shared property
\* declares its type or a min/max constraint in only one of the schemas.
C26_Dual ==
    call.op = "compatibility" => (ret.backward <=> ret.forward)

-----------------------------------------------------------------------------
(* gts.py: GtsID.is_valid next to the constructor, on one text.            *)

InitValid == by_id = <<>> /\ reader = <<>> /\ call = NoCall /\ ret = NoRet

\* GtsID.is_valid(s), and whether GtsID(s) raises
IsValid(s, pad, uri) ==
    /\ call' = [op |-> "is_valid", s |-> s, pad |-> pad, uri |-> uri]
    /\ ret' = [ok |-> TRUE, valid |-> is_valid(s), constructed |-> GtsID(s).ok]
    /\ UNCHANGED <<by_id, reader>>

NextValid ==
    /\ call = NoCall
    /\ \E texts \in Chains, tilde \in BOOLEAN, pad \in BOOLEAN, uri \in BOOLEAN :
           IsValid(Decorated(CoreOf(texts, tilde), pad, uri), pad, uri)

SpecValid == InitValid /\ [][NextValid]_vars

\* C28: GtsID.is_valid(s) is true iff GtsID(s) is constructed without
\* error, for every string s, with blanks around it and a gts:// prefix
\* included.
C28_ValidIffConstructed ==
    call.op = "is_valid" => (ret.valid <=> ret.constructed)

-----------------------------------------------------------------------------
(* path_resolver.py: one GtsPathResolver over a sequence of resolve calls. *)
(* The resolver object is held in ret; call keeps the last path, the       *)
(* number of calls made and the object as it was before the call.          *)

\* GtsPathResolver(gts_id, content): the defaults of the dataclass; None and
\* [] are both the empty sequence for available_fields before the first call
GtsPathResolver(content) ==
    [content |-> content, path |-> <<>>, value |-> JNull, resolved |-> FALSE,
     error |-> NoError, available_fields |-> <<>>]

\* mutant of ResetFields: only the path is assigned
ResetFields_PathOnly(self, path) == [self EXCEPT !.path = path]

\* the five assignments that open resolve
ResetFields(self, path) ==
    [self EXCEPT !.path = path, !.value = JNull, !.resolved = FALSE, !.error = NoError,
                 !.available_fields = <<>>]

\* the assignments made on the way out: value and resolved after the loop,
\* error and available_fields where the walk stops, none when an exception
\* leaves the method
AssignOutcome(self, r) ==
    IF r.raised THEN self
    ELSE IF r.resolved THEN [self EXCEPT !.value = r.value, !.resolved = TRUE]
    ELSE [self EXCEPT !.error = r.error, !.available_fields = r.available_fields]

\* self.resolve(path)
resolve_on(self, path) == AssignOutcome(ResetFields(self, path), resolve(self.content, path))

\* paths that resolve, and paths that fail in each of the ways resolve fails
ResolverPaths ==
    {<<>>, K_a, K_a \o <<".">> \o K_b, K_a \o <<"/">> \o K_b \o <<"/">> \o K_a,
     K_items \o <<"[", "0", "]">>, K_items \o <<"[", "3", "]">>,
     K_items \o <<".">> \o K_a, K_b, <<"[", "0", "]">>, <<"1">>}

\* the most resolve calls made on one resolver
MaxCalls == 3

InitResolver ==
    /\ by_id = <<>> /\ reader = <<>> /\ call = [op |-> "none", n |-> 0]
    /\ \E content \in PathContents : ret = GtsPathResolver(content)

ResolveOn(path) ==
    /\ call.n < MaxCalls
    /\ call' = [op |-> "resolve_on", path |-> path, n |-> call.n + 1, before |-> ret]
    /\ ret' = resolve_on(ret, path)
    /\ UNCHANGED <<by_id, reader>>

NextResolver == \E path \in ResolverPaths : ResolveOn(path)

SpecResolver == InitResolver /\ [][NextResolver]_vars

\* C30: a resolver carries no state between calls: after any sequence of
\* resolve calls the fields path, value, resolved, error and available_fields
\* are those of a fresh resolver over the same content that resolved only
\* the last path.
C30_NoStateBetweenCalls ==
    call.op = "resolve_on" => ret = resolve_on(GtsPathResolver(ret.content), call.path)

\* a failed resolve, with an error and available fields, followed by a
\* successful one on the same resolver
C30_Witness ==
    /\ call.op = "resolve_on" /\ call.n >= 2
    /\ call.before.error # NoError /\ call.before.available_fields # <<>>
    /\ ret.resolved /\ ret.error = NoError /\ ret.available_fields = <<>>

\* a successful resolve with a value, followed by a failed one
C30_WitnessStaleValue ==
    /\ call.op = "resolve_on" /\ call.n >= 2
    /\ call.before.resolved /\ call.before.value.t = "num"
    /\ ~ret.resolved /\ ret.value.t = "null" /\ ret.error # NoError

====
